---- MODULE Spec2Model ----
(***************************************************************************)
(* VSCord presence server: the session layer (MessageHandler), the Redis   *)
(* pub/sub fan-out (PubSubService), the GitHub adapter and the parts of    *)
(* the database the session layer reads and writes.                        *)
(*                                                                         *)
(* One action is one handler run to completion.  Redis delivers a          *)
(* published message to the process asynchronously: a publish appends to   *)
(* `inbox` (when the process is physically subscribed to the channel) and  *)
(* a later Deliver step runs PubSubService.handleMessage on it.            *)
(***************************************************************************)
EXTENDS Integers, Sequences, FiniteSets, TLC

\* ------------------------------------------------------------------ bounds
MaxConns  == 2   \* sockets that are open at the same time
MaxEvents == 4   \* client frames received and clock ticks passed in one run
MaxInbox  == 1   \* messages in flight from Redis to the process

\* ------------------------------------------------------- program constants
SESSION_RESUME_TTL_MS == 60000
\* the model's clock advances in steps of TickMs
TickMs == SESSION_RESUME_TTL_MS
ResumeTtlTicks == SESSION_RESUME_TTL_MS \div TickMs

NoId      == 0             \* githubId?: number, left undefined
NoToken   == 0             \* resumeToken?: string, left undefined
Undefined == "undefined"   \* an optional string left undefined
ServerTs  == "Date.now()"  \* a timestamp the server reads from its clock

\* ------------------------------------------------------------ environment
Conns == 1..MaxConns

\* GitHub accounts: id -> login and avatar; GhToken[i] is an access token of i
GhIds == {1, 2}
GhLogin == [i \in GhIds |-> IF i = 1 THEN "alice" ELSE "bob"]
GhAvatar == [i \in GhIds |-> IF i = 1 THEN "av_alice" ELSE "av_bob"]
GhToken == [i \in GhIds |-> IF i = 1 THEN "tok_alice" ELSE "tok_bob"]
BadGhToken == "tok_revoked"
\* <<a, b>>: account a follows account b.  alice follows bob, bob does not
\* follow alice.
Follows == {<<1, 2>>}

Usernames == {GhLogin[i] : i \in GhIds}
Presence(username) == <<"presence", username>>

StatusType   == {"Online", "Away"}
ActivityType == {"Idle", "Coding"}
ProjectNames == {"", "vscord"}
Languages    == {"", "ts"}
VisibilityMode == {"everyone", "followers", "following", "close-friends", "invisible"}

\* ------------------------------------------------------------------ state
VARIABLES
    conn,          \* transport of each socket slot: "new", "open", "terminated" or "closed"
    clients,       \* MessageHandler.clients: socket -> ClientData
    userSessions,  \* MessageHandler.userSessions: username -> set of sockets
    subscriptions, \* PubSubService.subscriptions: channel -> number of Subscription objects per socket
    userSockets,   \* PubSubService.userSockets: socket -> channels, in push order
    redisSubs,     \* channels the subscriber handle is subscribed to in Redis
    inbox,         \* messages Redis has pushed to the subscriber handle, not yet handled
    sessions,      \* Redis keys session:{token}: token -> SessionData and remaining ttl
    statusCache,   \* Redis hashes status:{username}
    dbUsers,       \* table users: the github ids that have a row
    dbPrefs,       \* table preferences: user_id -> row
    dbGuests,      \* table guest_users: usernames
    nextToken,     \* the next value crypto.randomUUID() returns
    events,        \* client frames received and clock ticks passed so far
    lastOp,        \* the handler that ran in the last step, with its input
    pub,           \* publisher.publish calls of the last step, in order
    out,           \* ws.send calls of the last step, per socket, in order
    offlineSeen,   \* usernames whose `x` reached a subscriber since their last window closed
    issuedSubs,    \* token -> channels the socket held when the token was issued
    dbChannels,    \* table channels: id -> row
    dbMembers,     \* table channel_members: channel id -> rows, by joined_at
    joining,       \* socket -> the handleJoinChannel call that awaits its INSERT
    aliveClients,  \* index.ts aliveClients: socket -> heard from since the last sweep
    heard,         \* sockets a frame or a pong arrived from since the last sweep
    swept,         \* sockets a sweep has passed since their last frame or pong
    loggingIn,     \* socket -> the login frame whose handleLogin call is awaiting
    tracker,       \* the ActivityTracker of one editor window (client side)
    calls          \* the PubSubService calls that await Redis, per method and socket

vars == <<conn, clients, userSessions, subscriptions, userSockets, redisSubs, inbox,
          sessions, statusCache, dbUsers, dbPrefs, dbGuests, nextToken, events,
          lastOp, pub, out, offlineSeen, issuedSubs, dbChannels, dbMembers, joining,
          aliveClients, heard, swept, loggingIn, tracker, calls>>

\* the channel tables and the join calls in progress
chanVars == <<dbChannels, dbMembers, joining>>

\* the liveness table and the calls in progress
connVars == <<aliveClients, heard, swept, loggingIn, calls>>

\* the state of the editor extension
clientVars == <<tracker>>

\* ------------------------------------------------------------ map helpers
MapSet(f, k, v) == [x \in DOMAIN f \cup {k} |-> IF x = k THEN v ELSE f[x]]
MapDelete(f, k) == [x \in DOMAIN f \ {k} |-> f[x]]
EmptyMap == [x \in {} |-> x]
Has(f, k) == k \in DOMAIN f
\* one key of an object literal; JSON.stringify leaves out an undefined value
Opt(k, v) == IF v = Undefined THEN EmptyMap ELSE (k :> v)
OptId(k, v) == IF v = NoId THEN EmptyMap ELSE (k :> v)
Range(seq) == {seq[i] : i \in DOMAIN seq}
NoOut == [w \in Conns |-> <<>>]

\* ws.send: a socket that has closed is sent nothing
Send(ws, messages) == [NoOut EXCEPT ![ws] = IF conn[ws] = "open" THEN messages ELSE <<>>]

RECURSIVE SortedSeq(_)
\* the elements of a set of numbers in ascending order
SortedSeq(S) ==
    IF S = {} THEN <<>>
    ELSE LET m == CHOOSE x \in S : \A y \in S : x <= y
         IN <<m>> \o SortedSeq(S \ {m})

\* ---------------------------------------------------------------- GitHub
\* GitHubService.validateToken: the account of a valid token, else null (NoId)
validateToken(token) ==
    IF \E i \in GhIds : GhToken[i] = token
    THEN CHOOSE i \in GhIds : GhToken[i] = token
    ELSE NoId

getFollowers(id) == {a \in GhIds : <<a, id>> \in Follows}
getFollowing(id) == {b \in GhIds : <<id, b>> \in Follows}
getRelationships(id) == [followers |-> getFollowers(id), following |-> getFollowing(id)]

\* -------------------------------------------------------------- database
\* A users row holds what the last upsert wrote: login, avatar and the two
\* lists GitHub returned, so the row of id i is determined by i; close_friends
\* is '{}' in every row (nothing calls addCloseFriend).
upsertUser(users, githubId) == users \cup {githubId}

\* the username column of the users row of id: the login its last upsert wrote.
\* The account of a row in RenamedIds has changed its login since; its old
\* login, "alice", has been taken by account 1.
RenamedIds == {3}
usersUsername(id) ==
    IF id \in GhIds THEN GhLogin[id]
    ELSE IF id \in RenamedIds THEN GhLogin[1] ELSE ToString(id)

\* users.username is UNIQUE and the upsert resolves conflicts on github_id
\* only: the statement is rejected, and upsertUser throws, when the row of
\* another id holds the login
upsertUserThrows(users, githubId) ==
    \E id \in users : id # githubId /\ usersUsername(id) = GhLogin[githubId]

DbUser(id) == [github_id |-> id, username |-> usersUsername(id),
               followers |-> getFollowers(id), following |-> getFollowing(id),
               close_friends |-> {}]

\* DatabaseService.getUsersByIds: the rows whose id is in the list, by id
getUsersByIds(users, githubIds) ==
    IF githubIds = {} THEN <<>>
    ELSE LET ids == SortedSeq(githubIds \cap users)
         IN [i \in DOMAIN ids |-> DbUser(ids[i])]

DefaultPrefs == [visibility_mode |-> "everyone", share_project |-> TRUE,
                 share_language |-> TRUE, share_activity |-> TRUE]

\* prefs.x ?? d
Coalesce(obj, k, d) == IF Has(obj, k) THEN obj[k] ELSE d

\* DatabaseService.updatePreferences: the statement's parameters are never
\* NULL (each is defaulted before the query), so COALESCE($n, old) is $n
updatePreferences(prefsTable, userId, prefs) ==
    MapSet(prefsTable, userId,
           [visibility_mode |-> Coalesce(prefs, "visibility_mode", "everyone"),
            share_project   |-> Coalesce(prefs, "share_project", TRUE),
            share_language  |-> Coalesce(prefs, "share_language", TRUE),
            share_activity  |-> Coalesce(prefs, "share_activity", TRUE)])

\* DatabaseService.getPreferences: the row, or null (EmptyMap) when there is none
getPreferences(prefsTable, userId) ==
    IF Has(prefsTable, userId) THEN prefsTable[userId] ELSE EmptyMap

\* sensitivity: the followers and following lists read the wrong way round
canUserSeeSwapped(viewerId, targetPrefs, targetUser) ==
    IF viewerId = NoId THEN FALSE
    ELSE LET mode == IF Has(targetPrefs, "visibility_mode")
                     THEN targetPrefs.visibility_mode ELSE "everyone"
         IN CASE mode = "invisible"     -> FALSE
              [] mode = "everyone"      -> TRUE
              [] mode = "followers"     -> viewerId \in targetUser.following
              [] mode = "following"     -> viewerId \in targetUser.followers
              [] mode = "close-friends" -> viewerId \in targetUser.close_friends
              [] OTHER -> FALSE

\* DatabaseService.canUserSee(viewerId, targetId, targetPrefs, targetUser)
canUserSee(viewerId, targetPrefs, targetUser) ==
    IF viewerId = NoId THEN FALSE
    ELSE LET mode == Coalesce(targetPrefs, "visibility_mode", "everyone")
         IN CASE mode = "invisible"     -> FALSE
              [] mode = "everyone"      -> TRUE
              [] mode = "followers"     -> viewerId \in targetUser.followers
              [] mode = "following"     -> viewerId \in targetUser.following
              [] mode = "close-friends" -> viewerId \in targetUser.close_friends
              [] OTHER -> FALSE

\* DatabaseService.registerGuest: TRUE iff the insert succeeded
registerGuest(guests, username) == username # Undefined /\ username \notin guests

\* the table guest_users after registerGuest: username is NOT NULL and UNIQUE,
\* so the insert of an undefined or a registered name adds no row
guestsAfterRegister(guests, username) ==
    IF registerGuest(guests, username) THEN guests \cup {username} ELSE guests

\* ---------------------------------------------------------------- pub/sub
\* The three tables of PubSubService, threaded through its methods as one value
PubSubState == [subscriptions |-> subscriptions, userSockets |-> userSockets,
                redisSubs |-> redisSubs]

\* Set<Subscription>: every subscribe adds a new object, so a socket can be
\* in the set more than once; the set is kept as socket -> number of objects
SubCount(subs, channel, ws) ==
    IF Has(subs, channel) /\ Has(subs[channel], ws) THEN subs[channel][ws] ELSE 0

Subscribers(subs, channel) == IF Has(subs, channel) THEN DOMAIN subs[channel] ELSE {}

\* PubSubService.subscribe(ws, targetUsername, viewerId)
subscribe(ps, ws, targetUsername) ==
    LET channel == Presence(targetUsername)
        subs == IF Has(ps.subscriptions, channel) THEN ps.subscriptions[channel] ELSE EmptyMap
        socks == IF Has(ps.userSockets, ws) THEN ps.userSockets[ws] ELSE <<>>
    IN [subscriptions |-> MapSet(ps.subscriptions, channel,
                                 MapSet(subs, ws, SubCount(ps.subscriptions, channel, ws) + 1)),
        redisSubs |-> IF Has(ps.subscriptions, channel) THEN ps.redisSubs
                      ELSE ps.redisSubs \cup {channel},
        userSockets |-> MapSet(ps.userSockets, ws, Append(socks, channel))]

RECURSIVE subscribeToMany(_, _, _)
\* PubSubService.subscribeToMany(ws, targetUsernames, viewerId)
subscribeToMany(ps, ws, targetUsernames) ==
    IF targetUsernames = <<>> THEN ps
    ELSE subscribeToMany(subscribe(ps, ws, Head(targetUsernames)), ws, Tail(targetUsernames))

\* one turn of the loop of unsubscribeAll
unsubscribeOne(ps, ws, channel) ==
    IF ~Has(ps.subscriptions, channel) THEN ps
    ELSE LET left == MapDelete(ps.subscriptions[channel], ws)
         IN IF DOMAIN left = {}
            THEN [ps EXCEPT !.subscriptions = MapDelete(@, channel),
                            !.redisSubs = @ \ {channel}]
            ELSE [ps EXCEPT !.subscriptions = MapSet(@, channel, left)]

RECURSIVE unsubscribeChannels(_, _, _)
unsubscribeChannels(ps, ws, channels) ==
    IF channels = <<>> THEN ps
    ELSE unsubscribeChannels(unsubscribeOne(ps, ws, Head(channels)), ws, Tail(channels))

\* PubSubService.unsubscribeAll(ws)
unsubscribeAll(ps, ws) ==
    LET channels == IF Has(ps.userSockets, ws) THEN ps.userSockets[ws] ELSE <<>>
        done == unsubscribeChannels(ps, ws, channels)
    IN [done EXCEPT !.userSockets = MapDelete(@, ws)]

\* publishDelta / publishOnline / publishOffline: the message and its channel
publishDelta(username, delta) ==
    [channel |-> Presence(username), message |-> ("t" :> "u") @@ delta]
publishOnline(username, data) ==
    [channel |-> Presence(username), message |-> ("t" :> "o") @@ data]
publishOffline(username) ==
    [channel |-> Presence(username), message |-> [t |-> "x", id |-> username, ts |-> ServerTs]]

\* Redis PUBLISH: the message reaches the subscriber handle iff the handle is
\* subscribed to the channel at that moment
RedisPublish(queue, physical, published) ==
    queue \o SelectSeq(published, LAMBDA m : m.channel \in physical)

RECURSIVE Repeat(_, _)
Repeat(x, n) == IF n = 0 THEN <<>> ELSE <<x>> \o Repeat(x, n - 1)

\* PubSubService.handleMessage(channel, message): what each socket is sent
handleMessage(subs, channel, message) ==
    [w \in Conns |->
        IF conn[w] = "open" THEN Repeat(message, SubCount(subs, channel, w)) ELSE <<>>]

\* setResumeToken / getResumeToken: SET session:{token} ... PX ttl, GET
setResumeToken(store, token, session) ==
    MapSet(store, token, [session |-> session, ttl |-> ResumeTtlTicks])
getResumeToken(store, token) ==
    IF Has(store, token) THEN store[token].session ELSE EmptyMap

\* cacheUserStatus: HSET status:{username} ... (the 1 h expiry is not modelled)
cacheUserStatus(cache, username, status) ==
    MapSet(cache, username, IF Has(cache, username) THEN status @@ cache[username] ELSE status)

\* --------------------------------------------------------- message handler
\* MessageHandler.getClientByUsername: is some client bound to the name
getClientByUsername(table, username) ==
    \E w \in DOMAIN table : table[w].username = username

\* MessageHandler.getFriendUsernames(userId, followers, following)
getFriendUsernames(users, followers, following) ==
    LET rows == getUsersByIds(users, followers \cup following)
    IN [i \in DOMAIN rows |-> rows[i].username]

\* MessageHandler.canClientSee(viewer, target)
canClientSee(viewer, target) ==
    IF viewer.githubId = NoId \/ target.githubId = NoId THEN FALSE
    ELSE \/ target.githubId \in viewer.following
         \/ target.githubId \in viewer.followers
         \/ viewer.githubId \in target.following
         \/ viewer.githubId \in target.followers

CompactUser(c) ==
    [id |-> c.username, s |-> c.status, act |-> c.activity, p |-> c.project,
     l |-> c.language] @@ Opt("a", c.avatar)

\* MessageHandler.sendInitialSync: one entry per other client the viewer may
\* see, keyed here by the socket it was read from
sendInitialSync(table, client) ==
    [t |-> "sync",
     users |-> [w \in {x \in DOMAIN table : /\ table[x].username # client.username
                                            /\ canClientSee(client, table[x])}
                |-> CompactUser(table[w])]]

\* handleLogin, line 77: the login is a resume
isResumeLogin(session, username) ==
    session # EmptyMap /\ session.username = username

\* sensitivity: the online event published at every login, resumed or not
publishesOnlineAlways(isResume) == TRUE

\* setupClient, line 193: a login that publishes the online event
publishesOnline(isResume) == ~isResume

\* setupClient, line 175: the friends the socket is subscribed to
friendsToSubscribe(users, githubId, followers, following) ==
    IF githubId # NoId THEN getFriendUsernames(users, followers, following) ELSE <<>>

\* MessageHandler.setupClient(ws, data); reads the users table as the caller left it
setupClient(ws, data) ==
    LET newResumeToken == nextToken
        clientData == [username |-> data.username, githubId |-> data.githubId,
                       avatar |-> data.avatar, status |-> "Online", activity |-> "Idle",
                       project |-> "", language |-> "",
                       followers |-> data.followers, following |-> data.following,
                       resumeToken |-> newResumeToken]
        table == MapSet(clients, ws, clientData)
        friends == friendsToSubscribe(dbUsers', data.githubId, data.followers, data.following)
        ps == subscribeToMany(PubSubState, ws, friends)
        published == IF publishesOnline(data.isResume)
                     THEN <<publishOnline(data.username,
                              [id |-> data.username, s |-> "Online", act |-> "Idle",
                               p |-> "", l |-> ""] @@ Opt("a", data.avatar))>>
                     ELSE <<>>
    IN /\ Len(inbox) + Len(published) <= MaxInbox
       /\ nextToken' = nextToken + 1
       /\ sessions' = setResumeToken(sessions, newResumeToken,
              [userId |-> IF data.githubId # NoId THEN ToString(data.githubId) ELSE data.username,
               username |-> data.username, githubId |-> data.githubId,
               connectedAt |-> ServerTs])
       /\ clients' = table
       /\ userSessions' = MapSet(userSessions, data.username,
              (IF Has(userSessions, data.username) THEN userSessions[data.username] ELSE {})
                  \cup {ws})
       /\ subscriptions' = ps.subscriptions
       /\ userSockets' = ps.userSockets
       /\ redisSubs' = ps.redisSubs
       /\ out' = Send(ws,
              << [t |-> "loginSuccess", token |-> newResumeToken,
                  followers |-> data.followers, following |-> data.following]
                     @@ OptId("githubId", data.githubId),
                 sendInitialSync(table, clientData) >>)
       /\ pub' = published
       /\ inbox' = RedisPublish(inbox, ps.redisSubs, published)
       /\ issuedSubs' = MapSet(issuedSubs, newResumeToken,
              IF Has(ps.userSockets, ws) THEN Range(ps.userSockets[ws]) ELSE {})
       /\ UNCHANGED <<conn, statusCache, dbPrefs, offlineSeen>>

\* a login that is refused: the loginError reply and nothing else
loginError(ws, error) ==
    /\ out' = Send(ws, <<[t |-> "loginError", error |-> error]>>)
    /\ pub' = <<>>
    /\ UNCHANGED <<conn, clients, userSessions, subscriptions, userSockets, redisSubs,
                   inbox, sessions, statusCache, dbPrefs, nextToken, offlineSeen,
                   issuedSubs>>

\* a login whose handler threw: handleLogin catches nothing, handleMessage
\* rethrows, and the catch of ws.on('message') in index.ts replies
internalError(ws) ==
    /\ out' = Send(ws, <<[t |-> "error", error |-> "Internal server error"]>>)
    /\ pub' = <<>>
    /\ UNCHANGED <<conn, clients, userSessions, subscriptions, userSockets, redisSubs,
                   inbox, sessions, statusCache, dbPrefs, nextToken, offlineSeen,
                   issuedSubs>>

\* sensitivity: a registered guest name refused whether or not a client holds it
usernameTakenWhenRegistered(isUnique, existing) == ~isUnique

\* handleLogin, lines 110-116: the guest login is refused
usernameTaken(isUnique, existing) == ~isUnique /\ existing

\* MessageHandler.handleLogin(ws, message).  The call completes whether or not
\* the socket is still open: nothing in it looks at ws.readyState.
handleLogin(ws, message) ==
    LET session == IF message.resumeToken # NoToken
                   THEN getResumeToken(sessions, message.resumeToken) ELSE EmptyMap
        ghUser == validateToken(message.token)
        isUnique == registerGuest(dbGuests, message.username)
    IN /\ conn[ws] # "new"
       /\ IF message.resumeToken # NoToken /\ isResumeLogin(session, message.username)
          THEN /\ UNCHANGED <<dbUsers, dbGuests>>
               /\ setupClient(ws, [username |-> message.username,
                                   githubId |-> session.githubId, avatar |-> Undefined,
                                   followers |-> {}, following |-> {}, isResume |-> TRUE])
               /\ lastOp' = [op |-> "login", ws |-> ws, message |-> message,
                             ok |-> TRUE, resume |-> TRUE, username |-> message.username]
          ELSE IF message.token # Undefined
          THEN IF ghUser = NoId
               THEN /\ UNCHANGED <<dbUsers, dbGuests>>
                    /\ loginError(ws, "Invalid GitHub token")
                    /\ lastOp' = [op |-> "login", ws |-> ws, message |-> message,
                                  ok |-> FALSE, resume |-> FALSE,
                                  username |-> message.username]
               ELSE IF upsertUserThrows(dbUsers, ghUser)
               THEN /\ UNCHANGED <<dbUsers, dbGuests>>
                    /\ internalError(ws)
                    /\ lastOp' = [op |-> "login", ws |-> ws, message |-> message,
                                  ok |-> FALSE, resume |-> FALSE,
                                  username |-> GhLogin[ghUser]]
               ELSE /\ dbUsers' = upsertUser(dbUsers, ghUser)
                    /\ UNCHANGED dbGuests
                    /\ setupClient(ws, [username |-> GhLogin[ghUser], githubId |-> ghUser,
                                        avatar |-> GhAvatar[ghUser],
                                        followers |-> getRelationships(ghUser).followers,
                                        following |-> getRelationships(ghUser).following,
                                        isResume |-> FALSE])
                    /\ lastOp' = [op |-> "login", ws |-> ws, message |-> message,
                                  ok |-> TRUE, resume |-> FALSE,
                                  username |-> GhLogin[ghUser]]
          ELSE /\ dbGuests' = guestsAfterRegister(dbGuests, message.username)
               /\ UNCHANGED dbUsers
               /\ IF usernameTaken(isUnique, getClientByUsername(clients, message.username))
                  THEN /\ loginError(ws, "Username already taken")
                       /\ lastOp' = [op |-> "login", ws |-> ws, message |-> message,
                                     ok |-> FALSE, resume |-> FALSE,
                                     username |-> message.username]
                  ELSE /\ setupClient(ws, [username |-> message.username,
                                           githubId |-> NoId, avatar |-> Undefined,
                                           followers |-> {}, following |-> {},
                                           isResume |-> FALSE])
                       /\ lastOp' = [op |-> "login", ws |-> ws, message |-> message,
                                     ok |-> TRUE, resume |-> FALSE,
                                     username |-> message.username]

\* sensitivity: a supplied field counted as changed whatever the client holds
FieldSupplied(message, k, current, truthy) == Has(message, k)

\* handleStatusUpdate, lines 217-236: one `if` of the four.  `truthy` is the
\* `message.x &&` test of s and a; p and l are tested against undefined only.
FieldChanged(message, k, current, truthy) ==
    /\ Has(message, k)
    /\ truthy => message[k] # ""
    /\ message[k] # current

\* handleStatusUpdate, lines 214-236: the client after the update and the delta
computeDelta(client, message) ==
    LET cs == FieldChanged(message, "s", client.status, TRUE)
        ca == FieldChanged(message, "a", client.activity, TRUE)
        cp == FieldChanged(message, "p", client.project, FALSE)
        cl == FieldChanged(message, "l", client.language, FALSE)
    IN [client |-> [client EXCEPT !.status   = IF cs THEN message.s ELSE @,
                                  !.activity = IF ca THEN message.a ELSE @,
                                  !.project  = IF cp THEN message.p ELSE @,
                                  !.language = IF cl THEN message.l ELSE @],
        delta |-> ("id" :> client.username)
                    @@ (IF cs THEN "s" :> message.s ELSE EmptyMap)
                    @@ (IF ca THEN "a" :> message.a ELSE EmptyMap)
                    @@ (IF cp THEN "p" :> message.p ELSE EmptyMap)
                    @@ (IF cl THEN "l" :> message.l ELSE EmptyMap),
        changed |-> cs \/ ca \/ cp \/ cl]

\* sensitivity: the delta published whether or not a field changed
deltaAlways(username, r) == <<publishDelta(username, r.delta)>>

\* handleStatusUpdate, line 239: what a status update publishes
deltaToPublish(username, r) ==
    IF r.changed THEN <<publishDelta(username, r.delta)>> ELSE <<>>

\* MessageHandler.handleStatusUpdate(ws, message)
handleStatusUpdate(ws, message) ==
    /\ conn[ws] = "open"
    /\ lastOp' = [op |-> "statusUpdate", ws |-> ws, message |-> message]
    /\ out' = NoOut
    /\ IF ~Has(clients, ws)
       THEN /\ pub' = <<>>
            /\ UNCHANGED <<clients, statusCache, inbox>>
       ELSE LET r == computeDelta(clients[ws], message)
                published == deltaToPublish(clients[ws].username, r)
            IN /\ Len(inbox) + Len(published) <= MaxInbox
               /\ clients' = [clients EXCEPT ![ws] = r.client]
               /\ pub' = published
               /\ inbox' = RedisPublish(inbox, redisSubs, published)
               /\ statusCache' =
                    IF r.changed
                    THEN cacheUserStatus(statusCache, r.client.username,
                             [status |-> r.client.status, activity |-> r.client.activity,
                              project |-> r.client.project, language |-> r.client.language])
                    ELSE statusCache
    /\ UNCHANGED <<conn, userSessions, subscriptions, userSockets, redisSubs, sessions,
                   dbUsers, dbPrefs, dbGuests, nextToken, offlineSeen, issuedSubs>>

\* handlePrefsUpdate, lines 259-264: the Partial<DbPreferences> handed to the
\* database; a key the message lacks is undefined there
PrefsRow(prefs) ==
    (IF Has(prefs, "visibilityMode") THEN "visibility_mode" :> prefs.visibilityMode ELSE EmptyMap)
    @@ (IF Has(prefs, "shareProjectName") THEN "share_project" :> prefs.shareProjectName ELSE EmptyMap)
    @@ (IF Has(prefs, "shareLanguage") THEN "share_language" :> prefs.shareLanguage ELSE EmptyMap)
    @@ (IF Has(prefs, "shareActivity") THEN "share_activity" :> prefs.shareActivity ELSE EmptyMap)

\* handlePrefsUpdate, line 267: what a preferences update publishes
prefsToPublish(username, prefs) ==
    IF Has(prefs, "visibilityMode") /\ prefs.visibilityMode = "invisible"
    THEN <<publishOffline(username)>> ELSE <<>>

\* MessageHandler.handlePrefsUpdate(ws, message)
handlePrefsUpdate(ws, message) ==
    /\ conn[ws] = "open"
    /\ lastOp' = [op |-> "prefsUpdate", ws |-> ws, message |-> message]
    /\ out' = NoOut
    /\ IF ~Has(clients, ws) \/ clients[ws].githubId = NoId
       THEN /\ pub' = <<>>
            /\ UNCHANGED <<dbPrefs, inbox>>
       ELSE LET published == prefsToPublish(clients[ws].username, message.prefs)
            IN /\ Len(inbox) + Len(published) <= MaxInbox
               /\ dbPrefs' = updatePreferences(dbPrefs, clients[ws].githubId,
                                               PrefsRow(message.prefs))
               /\ pub' = published
               /\ inbox' = RedisPublish(inbox, redisSubs, published)
    /\ UNCHANGED <<conn, clients, userSessions, subscriptions, userSockets, redisSubs,
                   sessions, statusCache, dbUsers, dbGuests, nextToken, offlineSeen,
                   issuedSubs>>

\* handleDisconnect, line 284: the closed socket was the user's last session
wasLastSession(remaining) == remaining = {}

\* sensitivity: the offline event published at every disconnect
offlineOnEveryDisconnect(username, remaining) == <<publishOffline(username)>>

\* handleDisconnect, lines 284-286: what a disconnect publishes
offlineOnDisconnect(username, remaining) ==
    IF wasLastSession(remaining) THEN <<publishOffline(username)>> ELSE <<>>

\* MessageHandler.handleDisconnect(ws), run when the transport closes
handleDisconnect(ws) ==
    /\ conn[ws] \in {"open", "terminated"}
    /\ conn' = [conn EXCEPT ![ws] = "closed"]
    /\ lastOp' = [op |-> "disconnect", ws |-> ws,
                  username |-> IF Has(clients, ws) THEN clients[ws].username ELSE Undefined]
    /\ out' = NoOut
    /\ IF ~Has(clients, ws)
       THEN /\ pub' = <<>>
            /\ UNCHANGED <<clients, userSessions, subscriptions, userSockets, redisSubs,
                           inbox, offlineSeen>>
       ELSE LET client == clients[ws]
                remaining == IF Has(userSessions, client.username)
                             THEN userSessions[client.username] \ {ws} ELSE {}
                last == wasLastSession(remaining)
                published == offlineOnDisconnect(client.username, remaining)
                ps == unsubscribeAll(PubSubState, ws)
            IN /\ Len(inbox) + Len(published) <= MaxInbox
               /\ userSessions' =
                    IF last THEN MapDelete(userSessions, client.username)
                    ELSE MapSet(userSessions, client.username, remaining)
               /\ pub' = published
               /\ inbox' = RedisPublish(inbox, redisSubs, published)
               /\ offlineSeen' = IF last THEN offlineSeen \ {client.username}
                                 ELSE offlineSeen
               /\ subscriptions' = ps.subscriptions
               /\ userSockets' = ps.userSockets
               /\ redisSubs' = ps.redisSubs
               /\ clients' = MapDelete(clients, ws)
    /\ UNCHANGED <<sessions, statusCache, dbUsers, dbPrefs, dbGuests, nextToken,
                   issuedSubs>>

\* sensitivity: the liveness flag left as the sweep set it
markAliveNever(alive, ws) == alive

\* index.ts, aliveClients.set(ws, true): on connection, on a frame, on a pong
markAlive(alive, ws) == MapSet(alive, ws, TRUE)

\* the server accepts a transport (index.ts, wss.on('connection')).  A slot
\* whose socket has closed names the new WebSocket object once no table of the
\* server holds the old one any more.
Connect(ws) ==
    /\ conn[ws] # "open"
    /\ \A w \in Conns : w < ws => conn[w] # "new"
    /\ ~Has(clients, ws) /\ ~Has(userSockets, ws) /\ ~Has(joining, ws)
    /\ ~Has(loggingIn, ws)
    /\ ~Has(calls.subscribe, ws) /\ ~Has(calls.unsubscribeAll, ws)
    /\ \A channel \in DOMAIN subscriptions : SubCount(subscriptions, channel, ws) = 0
    /\ \A u \in DOMAIN userSessions : ws \notin userSessions[u]
    /\ conn' = [conn EXCEPT ![ws] = "open"]
    /\ aliveClients' = markAlive(aliveClients, ws)
    /\ swept' = swept \ {ws}
    /\ lastOp' = [op |-> "connect", ws |-> ws]
    /\ out' = NoOut
    /\ pub' = <<>>
    /\ UNCHANGED <<clients, userSessions, subscriptions, userSockets, redisSubs, inbox,
                   sessions, statusCache, dbUsers, dbPrefs, dbGuests, nextToken,
                   offlineSeen, issuedSubs>>

\* the subscriber handle's 'message' event: PubSubService.handleMessage
Deliver ==
    /\ inbox # <<>>
    /\ LET m == Head(inbox)
           sent == handleMessage(subscriptions, m.channel, m.message)
       IN /\ out' = sent
          /\ lastOp' = [op |-> "deliver", channel |-> m.channel, message |-> m.message]
          /\ offlineSeen' = IF m.message.t = "x" /\ \E w \in Conns : sent[w] # <<>>
                            THEN offlineSeen \cup {m.message.id} ELSE offlineSeen
    /\ inbox' = Tail(inbox)
    /\ pub' = <<>>
    /\ UNCHANGED <<conn, clients, userSessions, subscriptions, userSockets, redisSubs,
                   sessions, statusCache, dbUsers, dbPrefs, dbGuests, nextToken,
                   issuedSubs>>

\* TickMs pass: Redis ages the session keys and drops the expired
Tick ==
    /\ sessions # EmptyMap
    /\ sessions' = [t \in {x \in DOMAIN sessions : sessions[x].ttl > 1}
                      |-> [sessions[t] EXCEPT !.ttl = @ - 1]]
    /\ lastOp' = [op |-> "tick"]
    /\ out' = NoOut
    /\ pub' = <<>>
    /\ UNCHANGED <<conn, clients, userSessions, subscriptions, userSockets, redisSubs,
                   inbox, statusCache, dbUsers, dbPrefs, dbGuests, nextToken, offlineSeen,
                   issuedSubs>>

\* --------------------------------------------------------------- channels
MAX_CHANNEL_MEMBERS == 50

\* getChannelByInviteCode answering null
NoChannel == 0
\* the Redis topic of a channel
Channel(channelId) == <<"channel", channelId>>

INVITE_CODE_LENGTH == 6

\* generateInviteCode, line 265: the alphabet; a code is the sequence of its
\* characters
InviteChars ==
    << "A", "B", "C", "D", "E", "F", "G", "H", "J", "K", "L", "M", "N", "P", "Q", "R",
       "S", "T", "U", "V", "W", "X", "Y", "Z", "2", "3", "4", "5", "6", "7", "8", "9" >>

\* sensitivity: an alphabet that holds the letter O
inviteCharConfusable(r) == IF r = 0 THEN "O" ELSE InviteChars[r + 1]

\* generateInviteCode, line 268: chars.charAt(r)
inviteChar(r) == InviteChars[r + 1]

RECURSIVE inviteCodeLoop(_, _, _)
\* generateInviteCode, lines 266-269: the loop from i on
inviteCodeLoop(code, i, draws) ==
    IF i < INVITE_CODE_LENGTH
    THEN inviteCodeLoop(Append(code, inviteChar(draws[i + 1])), i + 1, draws)
    ELSE code

\* DatabaseService.generateInviteCode; draws are the values of
\* Math.floor(Math.random() * chars.length), each in 0..31
generateInviteCode(draws) == inviteCodeLoop(<<>>, 0, draws)

\* String.toUpperCase of one character, over the letters clients type
upperChar(ch) ==
    CASE ch = "d" -> "D" [] ch = "e" -> "E" [] ch = "v" -> "V"
      [] OTHER -> ch

\* String.toUpperCase
toUpperCase(s) == [i \in DOMAIN s |-> upperChar(s[i])]

\* DatabaseService.getChannelByInviteCode: the id of the row, or null
getChannelByInviteCode(channels, inviteCode) ==
    LET rows == {c \in DOMAIN channels : channels[c].invite_code = toUpperCase(inviteCode)}
    IN IF rows = {} THEN NoChannel ELSE CHOOSE c \in rows : TRUE

\* DatabaseService.getChannelMembers: the rows of the channel, by joined_at
getChannelMembers(members, channelId) ==
    IF Has(members, channelId) THEN members[channelId] ELSE <<>>

\* addChannelMember, lines 324-328: SELECT COUNT(*) ... WHERE channel_id = $1
countMembers(members, channelId) == Len(getChannelMembers(members, channelId))

\* addChannelMember, line 330: the channel counts as full
channelFull(count) == count >= MAX_CHANNEL_MEMBERS

\* DatabaseService.isChannelMember
isChannelMember(members, channelId, userId) ==
    \E i \in DOMAIN getChannelMembers(members, channelId) :
        getChannelMembers(members, channelId)[i].user_id = userId

\* addChannelMember, lines 334-344: INSERT ... ON CONFLICT (channel_id, user_id)
\* DO NOTHING.  The statement throws when a foreign key has no row.
insertMember(channels, users, members, channelId, userId, username, role) ==
    IF ~Has(channels, channelId) \/ userId \notin users
    THEN [added |-> FALSE, members |-> members]
    ELSE [added |-> TRUE,
          members |-> IF isChannelMember(members, channelId, userId) THEN members
                      ELSE MapSet(members, channelId,
                               Append(getChannelMembers(members, channelId),
                                      [user_id |-> userId, username |-> username,
                                       role |-> role]))]

\* DatabaseService.removeChannelMember
removeChannelMember(members, channelId, userId) ==
    IF ~Has(members, channelId) THEN members
    ELSE MapSet(members, channelId,
                SelectSeq(members[channelId], LAMBDA m : m.user_id # userId))

\* DatabaseService.getUserChannels: the channels the user has a membership row in
getUserChannels(members, userId) ==
    {c \in DOMAIN members : isChannelMember(members, c, userId)}

\* PubSubService.subscribeToChannel(ws, channelId, username): a Subscription of
\* the socket under channel:{id}, as subscribe adds one under presence:{username}
subscribeToChannel(ps, ws, channelId) ==
    LET channel == Channel(channelId)
        subs == IF Has(ps.subscriptions, channel) THEN ps.subscriptions[channel] ELSE EmptyMap
        socks == IF Has(ps.userSockets, ws) THEN ps.userSockets[ws] ELSE <<>>
    IN [subscriptions |-> MapSet(ps.subscriptions, channel,
                                 MapSet(subs, ws, SubCount(ps.subscriptions, channel, ws) + 1)),
        redisSubs |-> IF Has(ps.subscriptions, channel) THEN ps.redisSubs
                      ELSE ps.redisSubs \cup {channel},
        userSockets |-> MapSet(ps.userSockets, ws, Append(socks, channel))]

\* PubSubService.unsubscribeFromChannel(ws, channelId): the socket's
\* Subscriptions under channel:{id} removed
unsubscribeFromChannel(ps, ws, channelId) ==
    LET done == unsubscribeOne(ps, ws, Channel(channelId))
    IN IF ~Has(done.userSockets, ws) THEN done
       ELSE [done EXCEPT !.userSockets =
                MapSet(@, ws, SelectSeq(done.userSockets[ws],
                                        LAMBDA c : c # Channel(channelId)))]

\* PubSubService.publishToChannel(channelId, message)
publishToChannel(channelId, message) == [channel |-> Channel(channelId), message |-> message]

\* MessageHandler.sendError
sendError(ws, error) == Send(ws, <<[t |-> "error", error |-> error]>>)

\* a member of a roster: the live client of the name if there is one (the
\* windows of one user hold the same status here), else the placeholder
memberStatus(table, username) ==
    IF getClientByUsername(table, username)
    THEN LET w == CHOOSE x \in DOMAIN table :
                      /\ table[x].username = username
                      /\ \A y \in DOMAIN table : table[y].username = username => x <= y
         IN CompactUser(table[w])
    ELSE [id |-> username, s |-> "Offline", act |-> "Idle", p |-> "", l |-> ""]

\* handleJoinChannel, lines 709-720: the roster of a channel-sync
memberStatuses(table, rows) == [i \in DOMAIN rows |-> memberStatus(table, rows[i].username)]

\* the id gen_random_uuid() gives the next channel (no handler deletes a channel)
newChannelId(channels) == Cardinality(DOMAIN channels) + 1

\* MessageHandler.handleCreateChannel(ws, message); inviteCode is what
\* generateInviteCode returned
handleCreateChannel(ws, message, inviteCode) ==
    /\ conn[ws] = "open"
    /\ lastOp' = [op |-> "createChannel", ws |-> ws, message |-> message]
    /\ pub' = <<>>
    /\ UNCHANGED <<conn, clients, userSessions, inbox, sessions, statusCache, dbUsers,
                   dbPrefs, dbGuests, nextToken, offlineSeen, issuedSubs, joining>>
    /\ IF ~Has(clients, ws) \/ clients[ws].githubId = NoId
       THEN /\ out' = sendError(ws, "Must be logged in with GitHub to create channels")
            /\ UNCHANGED <<subscriptions, userSockets, redisSubs, dbChannels, dbMembers>>
       ELSE IF \E c \in DOMAIN dbChannels : dbChannels[c].invite_code = inviteCode
       THEN \* the INSERT violates UNIQUE (invite_code) and throws
            /\ out' = sendError(ws, "Failed to create channel")
            /\ UNCHANGED <<subscriptions, userSockets, redisSubs, dbChannels, dbMembers>>
       ELSE LET client == clients[ws]
                id == newChannelId(dbChannels)
                channels == MapSet(dbChannels, id,
                                [name |-> message.name, owner_id |-> client.githubId,
                                 invite_code |-> inviteCode])
                owner == insertMember(channels, dbUsers, dbMembers, id, client.githubId,
                                      client.username, "admin")
                ps == subscribeToChannel(PubSubState, ws, id)
            IN /\ dbChannels' = channels
               /\ dbMembers' = owner.members
               /\ subscriptions' = ps.subscriptions
               /\ userSockets' = ps.userSockets
               /\ redisSubs' = ps.redisSubs
               /\ out' = Send(ws, << [t |-> "ccOk", channelId |-> id, name |-> message.name,
                                      inviteCode |-> inviteCode],
                                     [t |-> "cs", channelId |-> id, name |-> message.name,
                                      members |-> <<CompactUser(client)>>] >>)

\* MessageHandler.handleJoinChannel(ws, message), up to the answer of the
\* SELECT COUNT(*) of addChannelMember.  The handler awaits the INSERT next and
\* other handlers run meanwhile; a socket has one join in progress here.
handleJoinChannel(ws, message) ==
    /\ conn[ws] = "open"
    /\ ~Has(joining, ws)
    /\ pub' = <<>>
    /\ UNCHANGED <<conn, clients, userSessions, subscriptions, userSockets, redisSubs,
                   inbox, sessions, statusCache, dbUsers, dbPrefs, dbGuests, nextToken,
                   offlineSeen, issuedSubs, dbChannels, dbMembers>>
    /\ IF ~Has(clients, ws) \/ clients[ws].githubId = NoId
       THEN /\ out' = sendError(ws, "Must be logged in with GitHub to join channels")
            /\ lastOp' = [op |-> "joinChannel", ws |-> ws, message |-> message,
                          channelId |-> NoChannel, count |-> 0]
            /\ UNCHANGED joining
       ELSE LET channelId == getChannelByInviteCode(dbChannels, message.inviteCode)
                count == countMembers(dbMembers, channelId)
            IN /\ lastOp' = [op |-> "joinChannel", ws |-> ws, message |-> message,
                             channelId |-> channelId, count |-> count]
               /\ IF channelId = NoChannel
                  THEN /\ out' = sendError(ws, "Invalid invite code")
                       /\ UNCHANGED joining
                  ELSE IF channelFull(count)
                  THEN /\ out' = sendError(ws, "Channel is full or you are already a member")
                       /\ UNCHANGED joining
                  ELSE /\ out' = NoOut
                       /\ joining' = MapSet(joining, ws,
                              [channelId |-> channelId, client |-> clients[ws]])

\* handleJoinChannel from the INSERT of addChannelMember to its end
joinChannelInsert(ws) ==
    /\ Has(joining, ws)
    /\ LET channelId == joining[ws].channelId
           client == joining[ws].client
           already == isChannelMember(dbMembers, channelId, client.githubId)
           r == insertMember(dbChannels, dbUsers, dbMembers, channelId, client.githubId,
                             client.username, "member")
           ps == subscribeToChannel(PubSubState, ws, channelId)
           published == <<publishToChannel(channelId,
                             [t |-> "cj", channelId |-> channelId,
                              member |-> CompactUser(client)])>>
       IN /\ lastOp' = [op |-> "joinChannelInsert", ws |-> ws, channelId |-> channelId,
                        username |-> client.username, githubId |-> client.githubId,
                        already |-> already, added |-> r.added]
          /\ dbMembers' = r.members
          /\ IF ~r.added
             THEN /\ out' = sendError(ws, "Channel is full or you are already a member")
                  /\ pub' = <<>>
                  /\ UNCHANGED <<subscriptions, userSockets, redisSubs, inbox>>
             ELSE /\ Len(inbox) + Len(published) <= MaxInbox
                  /\ subscriptions' = ps.subscriptions
                  /\ userSockets' = ps.userSockets
                  /\ redisSubs' = ps.redisSubs
                  /\ out' = Send(ws,
                        << [t |-> "jcOk", channelId |-> channelId,
                            name |-> dbChannels[channelId].name],
                           [t |-> "cs", channelId |-> channelId,
                            name |-> dbChannels[channelId].name,
                            members |-> memberStatuses(clients,
                                            getChannelMembers(r.members, channelId))] >>)
                  /\ pub' = published
                  /\ inbox' = RedisPublish(inbox, ps.redisSubs, published)
    /\ joining' = MapDelete(joining, ws)
    /\ UNCHANGED <<conn, clients, userSessions, sessions, statusCache, dbUsers, dbPrefs,
                   dbGuests, nextToken, offlineSeen, issuedSubs, dbChannels>>

\* MessageHandler.handleLeaveChannel(ws, message)
handleLeaveChannel(ws, message) ==
    /\ conn[ws] = "open"
    /\ lastOp' = [op |-> "leaveChannel", ws |-> ws, message |-> message]
    /\ out' = NoOut
    /\ UNCHANGED <<conn, clients, userSessions, sessions, statusCache, dbUsers, dbPrefs,
                   dbGuests, nextToken, offlineSeen, issuedSubs, dbChannels, joining>>
    /\ IF ~Has(clients, ws) \/ clients[ws].githubId = NoId
       THEN /\ pub' = <<>>
            /\ UNCHANGED <<subscriptions, userSockets, redisSubs, inbox, dbMembers>>
       ELSE LET client == clients[ws]
                ps == unsubscribeFromChannel(PubSubState, ws, message.channelId)
                published == <<publishToChannel(message.channelId,
                                  [t |-> "cl", channelId |-> message.channelId,
                                   id |-> client.username])>>
            IN /\ Len(inbox) + Len(published) <= MaxInbox
               /\ dbMembers' = removeChannelMember(dbMembers, message.channelId,
                                                   client.githubId)
               /\ subscriptions' = ps.subscriptions
               /\ userSockets' = ps.userSockets
               /\ redisSubs' = ps.redisSubs
               /\ pub' = published
               /\ inbox' = RedisPublish(inbox, ps.redisSubs, published)

\* handleChannelMessage, lines 784-790: the chat event of a frame
chatEvent(client, message) ==
    [t |-> "cm", channelId |-> message.channelId, id |-> client.username,
     content |-> message.content, ts |-> ServerTs]

\* MessageHandler.handleChannelMessage(ws, message)
handleChannelMessage(ws, message) ==
    /\ conn[ws] = "open"
    /\ lastOp' = [op |-> "channelMessage", ws |-> ws, message |-> message]
    /\ UNCHANGED <<conn, clients, userSessions, subscriptions, userSockets, redisSubs,
                   sessions, statusCache, dbUsers, dbPrefs, dbGuests, nextToken,
                   offlineSeen, issuedSubs, dbChannels, dbMembers, joining>>
    /\ IF ~Has(clients, ws) \/ clients[ws].githubId = NoId
       THEN /\ out' = NoOut
            /\ pub' = <<>>
            /\ UNCHANGED inbox
       ELSE IF ~isChannelMember(dbMembers, message.channelId, clients[ws].githubId)
       THEN /\ out' = sendError(ws, "Not a member of this channel")
            /\ pub' = <<>>
            /\ UNCHANGED inbox
       ELSE LET published == <<publishToChannel(message.channelId,
                                  chatEvent(clients[ws], message))>>
            IN /\ Len(inbox) + Len(published) <= MaxInbox
               /\ out' = NoOut
               /\ pub' = published
               /\ inbox' = RedisPublish(inbox, redisSubs, published)

\* ------------------------------------------------------------ the inputs
\* a field of a message that may be left out: every value, or absent
Optional(k, values) == {EmptyMap} \cup {k :> v : v \in values}

\* the names guests ask for: a GitHub login and a name of no account
GuestNames == {"alice", "carol"}

\* login frames: a GitHub login, one with a revoked token, a guest login, and a
\* reconnect presenting a resume token issued earlier under some username
LoginMessages ==
    {[username |-> GhLogin[i], token |-> GhToken[i], resumeToken |-> NoToken] : i \in GhIds}
    \cup {[username |-> "alice", token |-> BadGhToken, resumeToken |-> NoToken]}
    \cup {[username |-> n, token |-> Undefined, resumeToken |-> NoToken] : n \in GuestNames}
    \cup {[username |-> GhLogin[i], token |-> GhToken[i], resumeToken |-> t] :
              i \in GhIds, t \in 1..(nextToken - 1)}

StatusUpdateMessages ==
    {s @@ a @@ p @@ l : s \in Optional("s", StatusType), a \in Optional("a", ActivityType),
                        p \in Optional("p", ProjectNames), l \in Optional("l", Languages)}

PrefsUpdateMessages ==
    {[prefs |-> v] : v \in Optional("visibilityMode", {"followers", "invisible"})}
    \cup {[prefs |-> [shareActivity |-> FALSE]]}

\* the status updates of the session specification: one field, two values
ActivityUpdates == {[a |-> v] : v \in ActivityType}

\* no PubSubService call awaits Redis
NoCalls == [subscribe |-> EmptyMap, unsubscribeAll |-> EmptyMap]

\* ------------------------------------------------- client: ActivityTracker
AWAY_TIMEOUT_MS == 300000
UPDATE_DEBOUNCE_MS == 2000

\* a timer handle: null ({}) or the time left until the callback runs
NoTimer == {}
setTimeout(ms) == {ms}

\* ActivityTracker after construction, before start(); sinceActivity is
\* Date.now() - lastActivityTime, counted up to AWAY_TIMEOUT_MS
ActivityTracker ==
    [started |-> FALSE, focused |-> TRUE,
     currentState |-> [status |-> "Online", activity |-> "Idle", project |-> "", language |-> ""],
     sinceActivity |-> 0, updateTimer |-> NoTimer, awayTimer |-> NoTimer]

\* ActivityTracker.scheduleUpdate
scheduleUpdate(t) == [t EXCEPT !.updateTimer = setTimeout(UPDATE_DEBOUNCE_MS)]

\* ActivityTracker.startAwayTimer
startAwayTimer(t) == [t EXCEPT !.awayTimer = setTimeout(AWAY_TIMEOUT_MS)]

\* sensitivity: an update scheduled by every recorded activity
activityChangedAlways(current, activity) == TRUE

\* recordActivity, line 464: const changed
activityChanged(current, activity) == current # activity

\* ActivityTracker.recordActivity(activity)
recordActivity(t, activity) ==
    LET t1 == [t EXCEPT !.sinceActivity = 0,
                        !.currentState.status = IF @ = "Away" THEN "Online" ELSE @]
        changed == activityChanged(t1.currentState.activity, activity)
        t2 == [t1 EXCEPT !.currentState.activity = activity]
    IN startAwayTimer(IF changed THEN scheduleUpdate(t2) ELSE t2)

\* ActivityTracker.updateFromEditor(editor): editor is the project and the
\* language of its document
updateFromEditor(t, editor) ==
    LET changed == t.currentState.project # editor.project
                   \/ t.currentState.language # editor.language
        t1 == [t EXCEPT !.currentState.project = editor.project,
                        !.currentState.language = editor.language]
    IN IF changed THEN scheduleUpdate(t1) ELSE t1

\* ActivityTracker.checkAway
checkAway(t) ==
    IF t.sinceActivity >= AWAY_TIMEOUT_MS /\ t.currentState.status # "Away"
    THEN scheduleUpdate([t EXCEPT !.currentState.status = "Away",
                                  !.currentState.activity = "Idle"])
    ELSE t

\* the editors a window shows; NoEditor is vscode.window.activeTextEditor undefined
NoEditor == [project |-> Undefined, language |-> Undefined]
Editors == {[project |-> "vscord", language |-> "ts"], [project |-> "", language |-> "md"]}

\* an event of the tracker: the tracker changes, the server does not
trackerStep(op, t, sent) ==
    /\ tracker' = t
    /\ lastOp' = [op |-> op, sent |-> sent]
    /\ out' = NoOut
    /\ pub' = <<>>
    /\ UNCHANGED <<conn, clients, userSessions, subscriptions, userSockets, redisSubs,
                   inbox, sessions, statusCache, dbUsers, dbPrefs, dbGuests, nextToken,
                   events, offlineSeen, issuedSubs, chanVars, connVars>>

\* ActivityTracker.start() with the active editor of the window, if any
start(editor) ==
    /\ ~tracker.started
    /\ trackerStep("start",
          startAwayTimer(IF editor # NoEditor
                         THEN updateFromEditor([tracker EXCEPT !.started = TRUE], editor)
                         ELSE [tracker EXCEPT !.started = TRUE]), <<>>)

\* vscode.workspace.onDidChangeTextDocument
onDidChangeTextDocument ==
    /\ tracker.started
    /\ trackerStep("textDocument", recordActivity(tracker, "Coding"), <<>>)

\* vscode.window.onDidChangeActiveTextEditor(editor)
onDidChangeActiveTextEditor(editor) ==
    /\ tracker.started
    /\ trackerStep(IF editor # NoEditor THEN "activeTextEditor" ELSE "noTextEditor",
          IF editor # NoEditor
          THEN updateFromEditor(recordActivity(tracker, "Reading"), editor)
          ELSE tracker, <<>>)

\* vscode.debug.onDidStartDebugSession
onDidStartDebugSession ==
    /\ tracker.started
    /\ trackerStep("startDebug", recordActivity(tracker, "Debugging"), <<>>)

\* vscode.debug.onDidTerminateDebugSession
onDidTerminateDebugSession ==
    /\ tracker.started
    /\ trackerStep("terminateDebug", recordActivity(tracker, "Coding"), <<>>)

\* vscode.window.onDidChangeWindowState(state): the window loses or gains focus
onDidChangeWindowState ==
    /\ tracker.started
    /\ LET t == [tracker EXCEPT !.focused = ~@]
       IN IF ~t.focused
          THEN trackerStep("blur", checkAway(t), <<>>)
          ELSE trackerStep("focus", recordActivity(t, t.currentState.activity), <<>>)

\* the time left on a timer after ms have passed; a timer that ran is not set again
timerAfter(timer, ms) == {x - ms : x \in {y \in timer : y > ms}}
due(timer, ms) == \E x \in timer : x <= ms

\* ms pass, no longer than the nearest timer: the update timer's callback sends
\* the state, the away timer's callback is checkAway
elapse(ms) ==
    /\ tracker.started
    /\ \A x \in tracker.updateTimer \cup tracker.awayTimer : ms <= x
    /\ LET aged == [tracker EXCEPT
                       !.sinceActivity = IF @ + ms > AWAY_TIMEOUT_MS
                                         THEN AWAY_TIMEOUT_MS ELSE @ + ms,
                       !.updateTimer = timerAfter(@, ms),
                       !.awayTimer = timerAfter(@, ms)]
           sent == IF due(tracker.updateTimer, ms) THEN <<aged.currentState>> ELSE <<>>
       IN trackerStep("elapse",
             IF due(tracker.awayTimer, ms) THEN checkAway(aged) ELSE aged, sent)

\* ---------------------------------------------------------- specification
Init ==
    /\ conn = [w \in Conns |-> "new"]
    /\ clients = EmptyMap
    /\ userSessions = EmptyMap
    /\ subscriptions = EmptyMap
    /\ userSockets = EmptyMap
    /\ redisSubs = {}
    /\ inbox = <<>>
    /\ sessions = EmptyMap
    /\ statusCache = EmptyMap
    /\ dbUsers = {}
    /\ dbPrefs = EmptyMap
    /\ dbGuests = {}
    /\ nextToken = 1
    /\ events = 0
    /\ lastOp = [op |-> "init"]
    /\ pub = <<>>
    /\ out = NoOut
    /\ offlineSeen = {}
    /\ issuedSubs = EmptyMap
    /\ dbChannels = EmptyMap
    /\ dbMembers = EmptyMap
    /\ joining = EmptyMap
    /\ aliveClients = EmptyMap
    /\ heard = {}
    /\ swept = {}
    /\ loggingIn = EmptyMap
    /\ tracker = ActivityTracker
    /\ calls = NoCalls

Login ==
    /\ events < MaxEvents
    /\ events' = events + 1
    /\ \E ws \in Conns : conn[ws] = "open" /\ \E message \in LoginMessages : handleLogin(ws, message)
    /\ UNCHANGED <<chanVars, clientVars, connVars>>
StatusUpdate ==
    /\ events < MaxEvents
    /\ events' = events + 1
    /\ \E ws \in Conns : \E message \in ActivityUpdates : handleStatusUpdate(ws, message)
    /\ UNCHANGED <<chanVars, clientVars, connVars>>
PrefsUpdate ==
    /\ events < MaxEvents
    /\ events' = events + 1
    /\ \E ws \in Conns : \E message \in PrefsUpdateMessages : handlePrefsUpdate(ws, message)
    /\ UNCHANGED <<chanVars, clientVars, connVars>>
Disconnect == UNCHANGED <<events, chanVars, clientVars, connVars>> /\ \E ws \in Conns : handleDisconnect(ws)
Accept == UNCHANGED <<events, chanVars, clientVars, heard, loggingIn, calls>> /\ \E ws \in Conns : Connect(ws)
Redis == UNCHANGED <<events, chanVars, clientVars, connVars>> /\ Deliver
Clock ==
    /\ events < MaxEvents
    /\ events' = events + 1
    /\ Tick
    /\ UNCHANGED <<chanVars, clientVars, connVars>>

\* the status specification: GitHub logins without a resume token and the whole
\* domain of statusUpdate frames
\* client frames received in one run of the status specification
MaxStatusEvents == MaxEvents - 1

FreshLogins ==
    {[username |-> GhLogin[i], token |-> GhToken[i], resumeToken |-> NoToken] : i \in GhIds}

LoginFresh ==
    /\ events < MaxStatusEvents
    /\ events' = events + 1
    /\ \E ws \in Conns : conn[ws] = "open" /\ \E message \in FreshLogins : handleLogin(ws, message)
    /\ UNCHANGED <<chanVars, clientVars, connVars>>
StatusUpdateAny ==
    /\ events < MaxStatusEvents
    /\ events' = events + 1
    /\ \E ws \in Conns : \E message \in StatusUpdateMessages : handleStatusUpdate(ws, message)
    /\ UNCHANGED <<chanVars, clientVars, connVars>>

NextStatus == Accept \/ LoginFresh \/ StatusUpdateAny \/ Disconnect \/ Redis

SpecStatus == Init /\ [][NextStatus]_vars

\* the filter specification: canUserSee applied to every viewer id, preferences
\* row and users row over a small set of ids
FilterIds == {1, 2, 3}
FilterViewers == {NoId} \cup FilterIds
FilterPrefs == {EmptyMap} \cup {[DefaultPrefs EXCEPT !.visibility_mode = m] : m \in VisibilityMode}
FilterUsers ==
    {[github_id |-> 1, username |-> "alice", followers |-> fr, following |-> fg,
      close_friends |-> cf] : fr \in SUBSET {2, 3}, fg \in SUBSET {2, 3}, cf \in SUBSET {2, 3}}

Filter ==
    /\ \E viewerId \in FilterViewers, targetPrefs \in FilterPrefs, targetUser \in FilterUsers :
          lastOp' = [op |-> "canUserSee", viewerId |-> viewerId, targetPrefs |-> targetPrefs,
                     targetUser |-> targetUser,
                     result |-> canUserSee(viewerId, targetPrefs, targetUser)]
    /\ out' = NoOut
    /\ pub' = <<>>
    /\ UNCHANGED <<conn, clients, userSessions, subscriptions, userSockets, redisSubs,
                   inbox, sessions, statusCache, dbUsers, dbPrefs, dbGuests, nextToken,
                   events, offlineSeen, issuedSubs, chanVars, clientVars, connVars>>

NextFilter == Filter

SpecFilter == Init /\ [][NextFilter]_vars

\* the channel specification: the server starts on a database an earlier run
\* left: channel 1 with 49 members who stay offline, and channel 2 that bob
\* created.  alice, bob and a guest log in and create, join, leave and chat.
MaxChannels == 1   \* channels created in one run

\* the members of channel 1: accounts with a users row that do not log in
LegacyIds == 101..149
LegacyMember(id) == [user_id |-> id, username |-> ToString(id), role |-> "member"]

PersistedChannels ==
    (1 :> [name |-> <<"t", "e", "a", "m">>, owner_id |-> 101,
           invite_code |-> <<"T", "E", "A", "M", "4", "9">>])
    @@ (2 :> [name |-> <<"d", "e", "v">>, owner_id |-> 2,
              invite_code |-> <<"D", "E", "V", "2", "3", "4">>])
PersistedMembers ==
    (1 :> [i \in 1..Cardinality(LegacyIds) |-> LegacyMember(100 + i)])
    @@ (2 :> <<[user_id |-> 2, username |-> GhLogin[2], role |-> "admin"]>>)

InitChannel ==
    /\ conn = [w \in Conns |-> "new"]
    /\ clients = EmptyMap
    /\ userSessions = EmptyMap
    /\ subscriptions = EmptyMap
    /\ userSockets = EmptyMap
    /\ redisSubs = {}
    /\ inbox = <<>>
    /\ sessions = EmptyMap
    /\ statusCache = EmptyMap
    /\ dbUsers = LegacyIds \cup {2}
    /\ dbPrefs = EmptyMap
    /\ dbGuests = {}
    /\ nextToken = 1
    /\ events = 0
    /\ lastOp = [op |-> "init"]
    /\ pub = <<>>
    /\ out = NoOut
    /\ offlineSeen = {}
    /\ issuedSubs = EmptyMap
    /\ dbChannels = PersistedChannels
    /\ dbMembers = PersistedMembers
    /\ joining = EmptyMap
    /\ aliveClients = EmptyMap
    /\ heard = {}
    /\ swept = {}
    /\ loggingIn = EmptyMap
    /\ tracker = ActivityTracker
    /\ calls = NoCalls

\* login frames: the two GitHub accounts and a guest
ChannelLogins ==
    FreshLogins \cup {[username |-> "carol", token |-> Undefined, resumeToken |-> NoToken]}
\* the draws of one generateInviteCode call: those of ABC234, of 999999 and of
\* DEV234, the code of channel 2
CodeDraws == {<<0, 1, 2, 24, 25, 26>>, <<31, 31, 31, 31, 31, 31>>, <<3, 4, 19, 24, 25, 26>>}
\* a channel name of n characters
NameOfLength(n) == [i \in 1..n |-> "x"]
\* the lengths of the names clients ask for
NameLengths == {2, 3, 30, 31}
CreateChannelMessages == {[name |-> NameOfLength(n)] : n \in NameLengths}
\* the codes clients type: TEAM49, dev234, ABC234 and a code of no channel
JoinChannelMessages ==
    {[inviteCode |-> c] : c \in {<<"T", "E", "A", "M", "4", "9">>,
                                 <<"d", "e", "v", "2", "3", "4">>,
                                 <<"A", "B", "C", "2", "3", "4">>,
                                 <<"N", "O", "S", "U", "C", "H">>}}
ChannelIds == 1..(Cardinality(DOMAIN PersistedChannels) + MaxChannels)
LeaveChannelMessages == {[channelId |-> c] : c \in ChannelIds}
\* chat frames, with and without a sender id and a timestamp of the client's
ChannelChatMessages ==
    {[channelId |-> c, content |-> "hi"] @@ i @@ ts :
        c \in ChannelIds, i \in Optional("id", {"mallory"}), ts \in Optional("ts", {"clientTs"})}

LoginChannel ==
    /\ events < MaxEvents
    /\ events' = events + 1
    /\ \E ws \in Conns : conn[ws] = "open" /\ \E message \in ChannelLogins : handleLogin(ws, message)
    /\ UNCHANGED <<chanVars, clientVars, connVars>>
CreateChannel ==
    /\ events < MaxEvents
    /\ events' = events + 1
    /\ Cardinality(DOMAIN dbChannels) < Cardinality(DOMAIN PersistedChannels) + MaxChannels
    /\ \E ws \in Conns : \E message \in CreateChannelMessages : \E draws \in CodeDraws :
          handleCreateChannel(ws, message, generateInviteCode(draws))
    /\ UNCHANGED <<connVars, clientVars>>
JoinChannel ==
    /\ events < MaxEvents
    /\ events' = events + 1
    /\ \E ws \in Conns : \E message \in JoinChannelMessages : handleJoinChannel(ws, message)
    /\ UNCHANGED <<connVars, clientVars>>
JoinChannelInsert == UNCHANGED <<events, connVars, clientVars>> /\ \E ws \in Conns : joinChannelInsert(ws)
LeaveChannel ==
    /\ events < MaxEvents
    /\ events' = events + 1
    /\ \E ws \in Conns : \E message \in LeaveChannelMessages : handleLeaveChannel(ws, message)
    /\ UNCHANGED <<connVars, clientVars>>
ChannelMessage ==
    /\ events < MaxEvents
    /\ events' = events + 1
    /\ \E ws \in Conns : \E message \in ChannelChatMessages : handleChannelMessage(ws, message)
    /\ UNCHANGED <<connVars, clientVars>>

NextChannel ==
    \/ Accept \/ LoginChannel \/ CreateChannel \/ JoinChannel \/ JoinChannelInsert
    \/ LeaveChannel \/ ChannelMessage \/ Disconnect \/ Redis

SpecChannel == InitChannel /\ [][NextChannel]_vars

\* the sync specification: sendInitialSync applied to the client tables of a
\* viewer (alice, socket 1) and one or two windows of bob (sockets 2 and 3, in
\* the order they logged in), over every activity and status of each window
ACTIVITY_PRIORITY ==
    [a \in {"Debugging", "Coding", "Reading", "Idle", "Hidden"} |->
        CASE a = "Debugging" -> 4 [] a = "Coding" -> 3 [] a = "Reading" -> 2
          [] a = "Idle" -> 1 [] a = "Hidden" -> 0]

RECURSIVE mostActiveFrom(_, _, _, _)
\* getAggregatedStatus, lines 382-391: the loop over the user's sockets
mostActiveFrom(table, sockets, mostActive, highestPriority) ==
    IF sockets = <<>> THEN mostActive
    ELSE LET ws == Head(sockets)
             priority == IF Has(table, ws) /\ table[ws].activity \in DOMAIN ACTIVITY_PRIORITY
                         THEN ACTIVITY_PRIORITY[table[ws].activity] ELSE 0
         IN IF Has(table, ws) /\ priority > highestPriority
            THEN mostActiveFrom(table, Tail(sockets), table[ws], priority)
            ELSE mostActiveFrom(table, Tail(sockets), mostActive, highestPriority)

\* MessageHandler.getAggregatedStatus(username); sockets is userSessions[username]
\* in insertion order
getAggregatedStatus(table, sockets) == mostActiveFrom(table, sockets, EmptyMap, -1)

SyncActivities == DOMAIN ACTIVITY_PRIORITY
SyncWindow(id, status, activity) ==
    [username |-> GhLogin[id], githubId |-> id, avatar |-> GhAvatar[id],
     status |-> status, activity |-> activity, project |-> "", language |-> "",
     followers |-> getFollowers(id), following |-> getFollowing(id), resumeToken |-> id]
SyncWindows == {SyncWindow(2, s, a) : s \in StatusType, a \in SyncActivities}
SyncTables ==
    {(1 :> SyncWindow(1, "Online", "Idle")) @@ (2 :> v) : v \in SyncWindows}
    \cup {(1 :> SyncWindow(1, "Online", "Idle")) @@ (3 :> v) : v \in SyncWindows}
    \cup {(1 :> SyncWindow(1, "Online", "Idle")) @@ (2 :> v) @@ (3 :> w) :
              v \in SyncWindows, w \in SyncWindows}

Sync ==
    /\ \E table \in SyncTables :
          lastOp' = [op |-> "sendInitialSync", table |-> table, viewer |-> 1,
                     result |-> sendInitialSync(table, table[1])]
    /\ out' = NoOut
    /\ pub' = <<>>
    /\ UNCHANGED <<conn, clients, userSessions, subscriptions, userSockets, redisSubs,
                   inbox, sessions, statusCache, dbUsers, dbPrefs, dbGuests, nextToken,
                   events, offlineSeen, issuedSubs, chanVars, clientVars, connVars>>

NextSync == Sync

SpecSync == Init /\ [][NextSync]_vars

\* the connection specification: the handlers index.ts binds to a socket and
\* the liveness sweep.  A frame is the text a client sent: text JSON.parse
\* rejects, or the text of a message.
\* client frames received, pongs and sweeps in one run of the connection specification
MaxConnEvents == MaxEvents

MalformedFrame == [json |-> FALSE]
FrameOf(message) == [json |-> TRUE, message |-> message]

\* login frames: the two GitHub accounts, a revoked token, a guest, and a guest
\* login that leaves username out
ConnLogins ==
    {[t |-> "login", username |-> GhLogin[i], token |-> GhToken[i]] : i \in GhIds}
    \cup {[t |-> "login", username |-> "bob", token |-> BadGhToken]}
    \cup {[t |-> "login", username |-> "carol"], [t |-> "login"]}

ConnFrames ==
    {MalformedFrame}
    \cup {FrameOf(m) : m \in ConnLogins}
    \cup {FrameOf([t |-> "statusUpdate", a |-> "Coding"]), FrameOf([t |-> "hb"]),
          FrameOf([t |-> "subscribe"])}

\* a property of a parsed message, undefined when the text left it out
Field(message, k) == IF Has(message, k) THEN message[k] ELSE Undefined

\* handleLogin, line 72: const { username, token, resumeToken } = message
loginFields(message) ==
    [username |-> Field(message, "username"), token |-> Field(message, "token"),
     resumeToken |-> IF Has(message, "resumeToken") THEN message.resumeToken ELSE NoToken]

\* a frame answered without a handler of MessageHandler being called
replyOnly(ws, frame, messages) ==
    /\ out' = Send(ws, messages)
    /\ pub' = <<>>
    /\ lastOp' = [op |-> "frame", ws |-> ws, frame |-> frame]
    /\ UNCHANGED <<conn, clients, userSessions, subscriptions, userSockets, redisSubs,
                   inbox, sessions, statusCache, dbUsers, dbPrefs, dbGuests, nextToken,
                   offlineSeen, issuedSubs>>

\* index.ts, ws.on('message'), up to the first await of the handler it calls:
\* MessageHandler.handleMessage parses the text and dispatches on t.  The
\* login handler awaits Redis, GitHub or the database before it touches a
\* table, so the call is left pending; nothing holds the next frame of the
\* socket back meanwhile.
onMessage(ws, frame) ==
    /\ conn[ws] = "open"
    /\ aliveClients' = markAlive(aliveClients, ws)
    /\ heard' = heard \cup {ws}
    /\ swept' = swept \ {ws}
    /\ IF ~frame.json
       THEN /\ replyOnly(ws, frame, <<[t |-> "error", error |-> "Invalid JSON"]>>)
            /\ UNCHANGED <<loggingIn, calls>>
       ELSE LET message == frame.message
            IN CASE Field(message, "t") = "login" ->
                      /\ ~Has(loggingIn, ws)
                      /\ loggingIn' = MapSet(loggingIn, ws, loginFields(message))
                      /\ UNCHANGED calls
                      /\ replyOnly(ws, frame, <<>>)
                 [] Field(message, "t") = "statusUpdate" ->
                      /\ handleStatusUpdate(ws, [k \in DOMAIN message \ {"t"} |-> message[k]])
                      /\ UNCHANGED <<loggingIn, calls>>
                 [] Field(message, "t") = "hb" ->
                      /\ replyOnly(ws, frame, <<[t |-> "hb"]>>)
                      /\ UNCHANGED <<loggingIn, calls>>
                 [] OTHER ->
                      /\ replyOnly(ws, frame,
                             <<[t |-> "error", error |-> "Unknown message type"]>>)
                      /\ UNCHANGED <<loggingIn, calls>>

\* the awaits of a pending login resolve: the rest of handleLogin runs
loginResumes(ws) ==
    /\ Has(loggingIn, ws)
    /\ handleLogin(ws, loggingIn[ws])
    /\ loggingIn' = MapDelete(loggingIn, ws)
    /\ UNCHANGED <<aliveClients, heard, swept, calls>>

\* index.ts, ws.on('pong')
onPong(ws) ==
    /\ conn[ws] = "open"
    /\ aliveClients' = markAlive(aliveClients, ws)
    /\ heard' = heard \cup {ws}
    /\ swept' = swept \ {ws}
    /\ lastOp' = [op |-> "pong", ws |-> ws]
    /\ out' = NoOut
    /\ pub' = <<>>
    /\ UNCHANGED <<conn, clients, userSessions, subscriptions, userSockets, redisSubs,
                   inbox, sessions, statusCache, dbUsers, dbPrefs, dbGuests, nextToken,
                   offlineSeen, issuedSubs, loggingIn, calls>>

\* index.ts, heartbeatInterval: the sockets the sweep terminates
deadClients(alive) == {w \in Conns : conn[w] = "open" /\ Has(alive, w) /\ ~alive[w]}

\* index.ts, heartbeatInterval: one run of the callback over wss.clients
heartbeatInterval ==
    LET dead == deadClients(aliveClients)
        kept == {w \in Conns : conn[w] = "open"} \ dead
    IN /\ \E w \in Conns : conn[w] = "open"
       /\ conn' = [w \in Conns |-> IF w \in dead THEN "terminated" ELSE conn[w]]
       /\ aliveClients' = [w \in DOMAIN aliveClients \cup kept |->
                              IF w \in kept THEN FALSE ELSE aliveClients[w]]
       /\ out' = [w \in Conns |-> IF w \in kept THEN <<[t |-> "hb"]>> ELSE <<>>]
       /\ heard' = {}
       /\ swept' = kept
       /\ lastOp' = [op |-> "sweep", terminated |-> dead, kept |-> kept, heard |-> heard]
       /\ pub' = <<>>
       /\ UNCHANGED <<clients, userSessions, subscriptions, userSockets, redisSubs,
                      inbox, sessions, statusCache, dbUsers, dbPrefs, dbGuests, nextToken,
                      offlineSeen, issuedSubs, loggingIn, calls>>

\* the users table is empty or holds the row of an account that was renamed
InitConn ==
    /\ conn = [w \in Conns |-> "new"]
    /\ clients = EmptyMap
    /\ userSessions = EmptyMap
    /\ subscriptions = EmptyMap
    /\ userSockets = EmptyMap
    /\ redisSubs = {}
    /\ inbox = <<>>
    /\ sessions = EmptyMap
    /\ statusCache = EmptyMap
    /\ dbUsers \in {{}, RenamedIds}
    /\ dbPrefs = EmptyMap
    /\ dbGuests = {}
    /\ nextToken = 1
    /\ events = 0
    /\ lastOp = [op |-> "init"]
    /\ pub = <<>>
    /\ out = NoOut
    /\ offlineSeen = {}
    /\ issuedSubs = EmptyMap
    /\ dbChannels = EmptyMap
    /\ dbMembers = EmptyMap
    /\ joining = EmptyMap
    /\ aliveClients = EmptyMap
    /\ heard = {}
    /\ swept = {}
    /\ loggingIn = EmptyMap
    /\ tracker = ActivityTracker
    /\ calls = NoCalls

Receive ==
    /\ events < MaxConnEvents
    /\ events' = events + 1
    /\ \E ws \in Conns : \E frame \in ConnFrames : onMessage(ws, frame)
    /\ UNCHANGED <<chanVars, clientVars>>
LoginResumes == UNCHANGED <<events, chanVars, clientVars>> /\ \E ws \in Conns : loginResumes(ws)
Pong ==
    /\ events < MaxConnEvents
    /\ events' = events + 1
    /\ \E ws \in Conns : onPong(ws)
    /\ UNCHANGED <<chanVars, clientVars>>
Sweep ==
    /\ events < MaxConnEvents
    /\ events' = events + 1
    /\ heartbeatInterval
    /\ UNCHANGED <<chanVars, clientVars>>

NextConn == Accept \/ Receive \/ LoginResumes \/ Pong \/ Sweep \/ Disconnect \/ Redis

SpecConn == InitConn /\ [][NextConn]_vars

\* the rich status specification: the custom status of a connection (Phase 2)
\* JSON null, as a value that compares with objects
Null == [null |-> TRUE]

\* String.prototype.slice(from, to) for 0 <= from <= to
slice(s, from, to) == SubSeq(s, from + 1, IF to < Len(s) THEN to ELSE Len(s))

\* handleSetStatus, lines 804-808: the CustomStatus object; a property left
\* undefined is a property left out
customStatusOf(message) ==
    [text |-> slice(message.text, 0, 128)]
    @@ (IF Has(message, "emoji") THEN "emoji" :> message.emoji ELSE EmptyMap)
    @@ (IF Has(message, "expiresIn")
        THEN "expiresAt" :> [now |-> ServerTs, plus |-> message.expiresIn] ELSE EmptyMap)

\* MessageHandler.handleSetStatus(ws, message)
handleSetStatus(ws, message) ==
    /\ conn[ws] = "open"
    /\ lastOp' = [op |-> "setStatus", ws |-> ws, message |-> message,
                  before |-> IF Has(clients, ws) THEN clients[ws] ELSE EmptyMap]
    /\ out' = NoOut
    /\ IF ~Has(clients, ws)
       THEN /\ pub' = <<>>
            /\ UNCHANGED <<clients, inbox>>
       ELSE LET client == clients[ws]
                customStatus == customStatusOf(message)
                published == <<publishDelta(client.username,
                                   [id |-> client.username, cs |-> customStatus])>>
            IN /\ Len(inbox) + Len(published) <= MaxInbox
               /\ clients' = [clients EXCEPT ![ws] = MapSet(@, "customStatus", customStatus)]
               /\ pub' = published
               /\ inbox' = RedisPublish(inbox, redisSubs, published)
    /\ UNCHANGED <<conn, userSessions, subscriptions, userSockets, redisSubs, sessions,
                   statusCache, dbUsers, dbPrefs, dbGuests, nextToken, offlineSeen,
                   issuedSubs>>

\* sensitivity: the clear publishes the delta and leaves the client as it is
withoutCustomStatusKept(client) == client

\* handleClearStatus, line 826: client.customStatus = undefined
withoutCustomStatus(client) == MapDelete(client, "customStatus")

\* MessageHandler.handleClearStatus(ws)
handleClearStatus(ws) ==
    /\ conn[ws] = "open"
    /\ lastOp' = [op |-> "clearStatus", ws |-> ws,
                  before |-> IF Has(clients, ws) THEN clients[ws] ELSE EmptyMap]
    /\ out' = NoOut
    /\ IF ~Has(clients, ws)
       THEN /\ pub' = <<>>
            /\ UNCHANGED <<clients, inbox>>
       ELSE LET client == clients[ws]
                published == <<publishDelta(client.username,
                                   [id |-> client.username, cs |-> Null])>>
            IN /\ Len(inbox) + Len(published) <= MaxInbox
               /\ clients' = [clients EXCEPT ![ws] = withoutCustomStatus(@)]
               /\ pub' = published
               /\ inbox' = RedisPublish(inbox, redisSubs, published)
    /\ UNCHANGED <<conn, userSessions, subscriptions, userSockets, redisSubs, sessions,
                   statusCache, dbUsers, dbPrefs, dbGuests, nextToken, offlineSeen,
                   issuedSubs>>

\* a status text of n characters
TextOfLength(n) == [i \in 1..n |-> "x"]
\* ss frames: a short text and one of 129 characters, with and without an
\* emoji and a duration
SetStatusMessages ==
    {[text |-> TextOfLength(n)] @@ e @@ d :
        n \in {3, 129}, e \in Optional("emoji", {"zzz"}), d \in Optional("expiresIn", {3600000})}

SetStatus ==
    /\ events < MaxEvents
    /\ events' = events + 1
    /\ \E ws \in Conns : \E message \in SetStatusMessages : handleSetStatus(ws, message)
    /\ UNCHANGED <<chanVars, clientVars, connVars>>
ClearStatus ==
    /\ events < MaxEvents
    /\ events' = events + 1
    /\ \E ws \in Conns : handleClearStatus(ws)
    /\ UNCHANGED <<chanVars, clientVars, connVars>>

NextRich == Accept \/ LoginFresh \/ SetStatus \/ ClearStatus \/ Disconnect \/ Redis

SpecRich == Init /\ [][NextRich]_vars

\* the tracker specification: one editor window and its clock
EditorOrNone == Editors \cup {NoEditor}
TimeSteps == {UPDATE_DEBOUNCE_MS, AWAY_TIMEOUT_MS - UPDATE_DEBOUNCE_MS, AWAY_TIMEOUT_MS}

NextTracker ==
    \/ \E editor \in EditorOrNone : start(editor)
    \/ onDidChangeTextDocument
    \/ \E editor \in EditorOrNone : onDidChangeActiveTextEditor(editor)
    \/ onDidStartDebugSession
    \/ onDidTerminateDebugSession
    \/ onDidChangeWindowState
    \/ \E ms \in TimeSteps : elapse(ms)

SpecTracker == Init /\ [][NextTracker]_vars

\* the pub/sub specification: the methods of PubSubService called on their
\* own, each split where it awaits the subscriber handle.  The handle sends
\* its commands in order, so the physical subscription is that of the last
\* command sent.
\* PubSubService.subscribe, lines 55-58, up to the await: the call of socket ws
\* is left pending when it had to create the topic's set
subscribeBegins(ws, targetUsername) ==
    LET channel == Presence(targetUsername)
    IN /\ conn[ws] # "new"
       /\ ~Has(calls.subscribe, ws)
       /\ lastOp' = [op |-> "subscribe", ws |-> ws, channel |-> channel,
                     done |-> Has(subscriptions, channel)]
       /\ IF ~Has(subscriptions, channel)
          THEN /\ subscriptions' = MapSet(subscriptions, channel, EmptyMap)
               /\ redisSubs' = redisSubs \cup {channel}
               /\ calls' = [calls EXCEPT !.subscribe = MapSet(@, ws, channel)]
               /\ UNCHANGED userSockets
          ELSE LET ps == subscribe(PubSubState, ws, targetUsername)
               IN /\ subscriptions' = ps.subscriptions
                  /\ userSockets' = ps.userSockets
                  /\ UNCHANGED <<redisSubs, calls>>

\* PubSubService.subscribe, lines 60-66, after the await:
\* this.subscriptions.get(channel)?.add(...) adds nothing when the set is gone
subscribeResumes(ws) ==
    /\ Has(calls.subscribe, ws)
    /\ LET channel == calls.subscribe[ws]
           socks == IF Has(userSockets, ws) THEN userSockets[ws] ELSE <<>>
       IN /\ lastOp' = [op |-> "subscribe", ws |-> ws, channel |-> channel, done |-> TRUE]
          /\ subscriptions' =
                IF Has(subscriptions, channel)
                THEN MapSet(subscriptions, channel,
                            MapSet(subscriptions[channel], ws,
                                   SubCount(subscriptions, channel, ws) + 1))
                ELSE subscriptions
          /\ userSockets' = MapSet(userSockets, ws, Append(socks, channel))
    /\ calls' = [calls EXCEPT !.subscribe = MapDelete(@, ws)]
    /\ UNCHANGED redisSubs

\* PubSubService.unsubscribeAll, the loop from the i-th channel of the socket's
\* list on, up to the next await: the tables, and the index to go on from, 0
\* once the loop is over and the list deleted
RECURSIVE unsubscribeFrom(_, _, _)
unsubscribeFrom(ps, ws, i) ==
    IF ~Has(ps.userSockets, ws) \/ i > Len(ps.userSockets[ws])
    THEN [ps |-> [ps EXCEPT !.userSockets = MapDelete(@, ws)], next |-> 0]
    ELSE LET channel == ps.userSockets[ws][i]
             after == unsubscribeOne(ps, ws, channel)
         IN IF Has(ps.subscriptions, channel) /\ ~Has(after.subscriptions, channel)
            THEN [ps |-> after, next |-> i + 1]
            ELSE unsubscribeFrom(after, ws, i + 1)

\* a call of unsubscribeAll runs from index i to its next await or to its end
unsubscribeAllRuns(ws, i) ==
    LET r == unsubscribeFrom(PubSubState, ws, i)
    IN /\ lastOp' = [op |-> "unsubscribeAll", ws |-> ws, done |-> r.next = 0]
       /\ subscriptions' = r.ps.subscriptions
       /\ userSockets' = r.ps.userSockets
       /\ redisSubs' = r.ps.redisSubs
       /\ calls' = [calls EXCEPT !.unsubscribeAll =
                       IF r.next = 0 THEN MapDelete(@, ws) ELSE MapSet(@, ws, r.next)]

\* the transport of ws closes and the disconnect path calls unsubscribeAll(ws)
unsubscribeAllBegins(ws) ==
    /\ conn[ws] = "open"
    /\ ~Has(calls.unsubscribeAll, ws)
    /\ conn' = [conn EXCEPT ![ws] = "closed"]
    /\ unsubscribeAllRuns(ws, 1)

unsubscribeAllResumes(ws) ==
    /\ Has(calls.unsubscribeAll, ws)
    /\ unsubscribeAllRuns(ws, calls.unsubscribeAll[ws])
    /\ UNCHANGED conn

\* what a step of the pub/sub specification leaves alone
pubSubFrame ==
    /\ out' = NoOut
    /\ pub' = <<>>
    /\ UNCHANGED <<clients, userSessions, inbox, sessions, statusCache, dbUsers, dbPrefs,
                   dbGuests, nextToken, offlineSeen, issuedSubs, chanVars, clientVars,
                   aliveClients, heard, swept, loggingIn>>

\* calls begun in one run of the pub/sub specification
MaxCalls == MaxEvents + 1

Subscribe ==
    /\ events < MaxCalls
    /\ events' = events + 1
    /\ \E ws \in Conns : \E u \in Usernames : subscribeBegins(ws, u)
    /\ UNCHANGED conn
    /\ pubSubFrame
SubscribeResumes ==
    /\ \E ws \in Conns : subscribeResumes(ws)
    /\ UNCHANGED <<conn, events>>
    /\ pubSubFrame
UnsubscribeAll ==
    /\ \E ws \in Conns : unsubscribeAllBegins(ws)
    /\ UNCHANGED events
    /\ pubSubFrame
UnsubscribeAllResumes ==
    /\ \E ws \in Conns : unsubscribeAllResumes(ws)
    /\ UNCHANGED events
    /\ pubSubFrame
\* some process publishes the offline event of u
Publish ==
    /\ events < MaxCalls
    /\ events' = events + 1
    /\ Len(inbox) < MaxInbox
    /\ \E u \in Usernames :
          /\ pub' = <<publishOffline(u)>>
          /\ inbox' = RedisPublish(inbox, redisSubs, pub')
          /\ lastOp' = [op |-> "publish", channel |-> Presence(u)]
    /\ out' = NoOut
    /\ UNCHANGED <<conn, clients, userSessions, subscriptions, userSockets, redisSubs,
                   sessions, statusCache, dbUsers, dbPrefs, dbGuests, nextToken,
                   offlineSeen, issuedSubs, chanVars, clientVars, connVars>>

NextPubSub ==
    \/ Accept \/ Subscribe \/ SubscribeResumes \/ UnsubscribeAll \/ UnsubscribeAllResumes
    \/ Publish \/ Redis

SpecPubSub == Init /\ [][NextPubSub]_vars

Next == Accept \/ Login \/ StatusUpdate \/ PrefsUpdate \/ Disconnect \/ Redis \/ Clock

Spec == Init /\ [][Next]_vars

\* -------------------------------------------------------- claim vocabulary
\* the GitHub account whose login is the username, if there is one
AccountOf(username) ==
    IF \E i \in GhIds : GhLogin[i] = username
    THEN CHOOSE i \in GhIds : GhLogin[i] = username
    ELSE NoId

\* a follows b or b follows a
FollowRelated(a, b) == <<a, b>> \in Follows \/ <<b, a>> \in Follows

\* followers union following of an account, as GitHub reports them
FriendSet(id) == getFollowers(id) \cup getFollowing(id)

\* the value a client holds for the field a statusUpdate calls k
Prior(client, k) ==
    CASE k = "s" -> client.status
      [] k = "a" -> client.activity
      [] k = "p" -> client.project
      [] k = "l" -> client.language

\* the fields of a statusUpdate that differ from what the client holds
Differing(client, message) == {k \in DOMAIN message : message[k] # Prior(client, k)}

\* the viewer bound to a socket has a follow relation with the user named
RelatedTo(viewer, username) ==
    /\ viewer.githubId # NoId
    /\ AccountOf(username) # NoId
    /\ FollowRelated(viewer.githubId, AccountOf(username))

\* the Privacy Filter admits the viewer for the account under its stored mode
Admits(viewerId, target) ==
    canUserSee(viewerId, getPreferences(dbPrefs, target), DbUser(target))

\* ------------------------------------------------------------------ claims
\* C1: a statusUpdate of user U that changes a field publishes exactly once, on
\* presence:U; the message is written only to sockets subscribed to presence:U;
\* and a connected user with no follow relation to U, in either direction, is
\* written nothing about U.
C1_FanOutToRelatedSubscribersOnly ==
    [][ /\ ( /\ lastOp'.op = "statusUpdate"
             /\ Has(clients, lastOp'.ws)
             /\ Differing(clients[lastOp'.ws], lastOp'.message) # {} )
           => /\ Len(pub') = 1
              /\ pub'[1].channel = Presence(clients[lastOp'.ws].username)
        /\ (lastOp'.op = "deliver" /\ lastOp'.message.t = "u")
           => \A w \in Conns : out'[w] # <<>> =>
                 /\ lastOp'.channel = Presence(lastOp'.message.id)
                 /\ SubCount(subscriptions, lastOp'.channel, w) > 0
                 /\ Has(clients, w) =>
                       \/ clients[w].username = lastOp'.message.id
                       \/ RelatedTo(clients[w], lastOp'.message.id)
      ]_vars

\* C2: when U publishes a status change, every connected user V who has U in
\* followers-union-following and whom the Privacy Filter admits for U is
\* subscribed to presence:U, so the change is delivered to V, whoever logged in
\* first and whether V's login was fresh or a resume.
C2_AdmittedFriendsReceiveEveryChange ==
    (lastOp.op = "statusUpdate" /\ pub # <<>> /\ clients[lastOp.ws].githubId # NoId) =>
        LET U == clients[lastOp.ws]
        IN \A w \in DOMAIN clients :
              ( /\ conn[w] = "open"
                /\ clients[w].githubId # NoId
                /\ clients[w].githubId # U.githubId
                /\ U.githubId \in FriendSet(clients[w].githubId)
                /\ Admits(clients[w].githubId, U.githubId) )
              => SubCount(subscriptions, Presence(U.username), w) > 0

\* C3: no `u` or `o` about target T is written to the socket of an
\* authenticated viewer whom the Privacy Filter denies for T under T's stored
\* visibility mode, subscribed to presence:T or not.
C3_NoDeliveryToDeniedViewer ==
    (lastOp.op = "deliver" /\ lastOp.message.t \in {"u", "o"}
        /\ AccountOf(lastOp.message.id) # NoId) =>
        \A w \in DOMAIN clients :
            ( /\ out[w] # <<>>
              /\ clients[w].githubId # NoId
              /\ clients[w].username # lastOp.message.id )
            => Admits(clients[w].githubId, AccountOf(lastOp.message.id))

\* the Window Set of a username
WindowSet(table, username) == IF Has(table, username) THEN table[username] ELSE {}

\* the channels a socket is subscribed to
ChannelsOf(table, ws) == IF Has(table, ws) THEN Range(table[ws]) ELSE {}

\* the number of `x` events for a username among the publishes of a step
OfflineCount(published, username) ==
    Cardinality({i \in DOMAIN published : /\ published[i].message.t = "x"
                                          /\ published[i].message.id = username})

\* a prefsUpdate that sets visibilityMode invisible, from an authenticated
\* connection bound to the username
GoesInvisible(op, table, username) ==
    /\ op.op = "prefsUpdate"
    /\ Has(table, op.ws)
    /\ table[op.ws].githubId # NoId
    /\ table[op.ws].username = username
    /\ Has(op.message.prefs, "visibilityMode")
    /\ op.message.prefs.visibilityMode = "invisible"

\* the Window Set of the username goes from non-empty to empty in the step
WindowSetEmpties(username) ==
    WindowSet(userSessions, username) # {} /\ WindowSet(userSessions', username) = {}

\* C4, as stated: an `x` for X is published iff X's Window Set goes from
\* non-empty to empty; closing one of several windows publishes none, closing
\* the last publishes exactly one.
C4_OfflineIffWindowSetEmpties ==
    [][ \A X \in Usernames \cup GuestNames :
            OfflineCount(pub', X) = IF WindowSetEmpties(X) THEN 1 ELSE 0 ]_vars

\* C4, amended: an `x` for X is published, exactly once, in the steps where X's
\* Window Set goes from non-empty to empty and in the steps where an
\* authenticated connection bound to X sets visibilityMode to invisible, and in
\* no other step.
C4_OfflineOnLastWindowOrInvisible ==
    [][ \A X \in Usernames \cup GuestNames :
            OfflineCount(pub', X) =
                IF WindowSetEmpties(X) \/ GoesInvisible(lastOp', clients, X)
                THEN 1 ELSE 0 ]_vars

\* a window of a user closed while another window of the user stays open, and
\* nothing was published
C4_MaskedClose ==
    /\ lastOp.op = "disconnect"
    /\ lastOp.username # Undefined
    /\ WindowSet(userSessions, lastOp.username) # {}
    /\ pub = <<>>

\* C5: when a user's only connection has dropped and the user logs in again
\* with the resume token before it expires, no subscriber of the user's topic
\* has been written an `x` for the user and the login publishes no `o`.
C5_ResumeUnobserved ==
    [][ ( /\ lastOp'.op = "login"
          /\ lastOp'.resume
          /\ WindowSet(userSessions, lastOp'.username) = {} )
        => /\ lastOp'.username \notin offlineSeen'
           /\ pub' = <<>> ]_vars

\* C6: a login is a resume exactly when it supplies a resume token whose
\* unexpired record names the declared username; a resume succeeds and
\* publishes nothing, and any other successful login publishes one `o` on the
\* user's topic.
C6_OnlineOnFreshLoginOnly ==
    [][ lastOp'.op = "login" =>
          LET m == lastOp'.message
              resumes == /\ m.resumeToken # NoToken
                         /\ Has(sessions, m.resumeToken)
                         /\ sessions[m.resumeToken].session.username = m.username
          IN /\ lastOp'.resume = resumes
             /\ resumes => (lastOp'.ok /\ pub' = <<>>)
             /\ (~resumes /\ lastOp'.ok) =>
                   /\ Len(pub') = 1
                   /\ pub'[1].channel = Presence(lastOp'.username)
                   /\ pub'[1].message.t = "o"
                   /\ pub'[1].message.id = lastOp'.username
      ]_vars

\* a login was resolved as a resume
C6_Resumed == lastOp.op = "login" /\ lastOp.resume /\ lastOp.ok

\* the `u` message with the id and the supplied fields that differ
ExpectedDelta(client, message) ==
    [k \in Differing(client, message) \cup {"t", "id"} |->
        IF k = "t" THEN "u" ELSE IF k = "id" THEN client.username ELSE message[k]]

C8_NoChangeNoTraffic ==
    [][ ( /\ lastOp'.op = "statusUpdate"
          /\ Has(clients, lastOp'.ws)
          /\ Differing(clients[lastOp'.ws], lastOp'.message) = {} )
        => /\ pub' = <<>>
           /\ out' = NoOut
           /\ UNCHANGED <<clients, statusCache, inbox>> ]_vars

\* a bound connection sent a statusUpdate that supplied fields and changed none
C8_Repeated ==
    /\ lastOp.op = "statusUpdate"
    /\ Has(clients, lastOp.ws)
    /\ DOMAIN lastOp.message # {}
    /\ pub = <<>>

\* C9: after login, disconnect and a login that resumes with the issued token,
\* the resumed connection is subscribed to the channels the connection held
\* when the token was issued and is in the Window Set of its username.
C9_ResumeKeepsSubscriptions ==
    [][ ( /\ lastOp'.op = "login"
          /\ lastOp'.resume
          /\ ~Has(clients, lastOp'.ws)
          /\ WindowSet(userSessions, lastOp'.username) = {} )
        => /\ ChannelsOf(userSockets', lastOp'.ws) = issuedSubs[lastOp'.message.resumeToken]
           /\ lastOp'.ws \in WindowSet(userSessions', lastOp'.username) ]_vars

\* C10: once a login has resumed with token T the record of T is gone, and
\* every successful login issues a token never issued before, with a record
\* that lives for the whole resume TTL.
C10_ResumeTokenSingleUse ==
    (lastOp.op = "login" /\ lastOp.ok) =>
        /\ lastOp.resume => ~Has(sessions, lastOp.message.resumeToken)
        /\ clients[lastOp.ws].resumeToken = nextToken - 1
        /\ Has(sessions, clients[lastOp.ws].resumeToken)
        /\ sessions[clients[lastOp.ws].resumeToken].ttl = ResumeTtlTicks

\* the visibility mode the preferences table holds for an account
StoredMode(prefsTable, id) ==
    Coalesce(getPreferences(prefsTable, id), "visibility_mode", "everyone")

\* the full snapshot of a client, as an online event carries it
Snapshot(c) ==
    [id |-> c.username, s |-> c.status, act |-> c.activity, p |-> c.project,
     l |-> c.language] @@ Opt("a", c.avatar)

\* C11: a prefsUpdate of an online user T that sets visibilityMode invisible
\* publishes one `x` on presence:T in the same step, and while T's stored mode
\* is invisible no `u` about T is written to any socket, whatever statusUpdates
\* T sends.
C11_InvisibleHidesUpdates ==
    /\ \A X \in Usernames :
          GoesInvisible(lastOp, clients, X) =>
              /\ OfflineCount(pub, X) = 1
              /\ pub[1].channel = Presence(X)
    /\ ( /\ lastOp.op = "deliver"
         /\ lastOp.message.t = "u"
         /\ AccountOf(lastOp.message.id) # NoId
         /\ lastOp.message.id \notin dbGuests
         /\ StoredMode(dbPrefs, AccountOf(lastOp.message.id)) = "invisible" )
       => out = NoOut

\* C12: a prefsUpdate of a connected user T whose stored mode is invisible that
\* sets another mode publishes one `o` on presence:T carrying T's current
\* status, activity, project, language and avatar.
C12_LeavingInvisiblePublishesOnline ==
    [][ ( /\ lastOp'.op = "prefsUpdate"
          /\ Has(clients, lastOp'.ws)
          /\ clients[lastOp'.ws].githubId # NoId
          /\ StoredMode(dbPrefs, clients[lastOp'.ws].githubId) = "invisible"
          /\ Has(lastOp'.message.prefs, "visibilityMode")
          /\ lastOp'.message.prefs.visibilityMode # "invisible" )
        => /\ Len(pub') = 1
           /\ pub'[1] = publishOnline(clients[lastOp'.ws].username,
                                      Snapshot(clients[lastOp'.ws])) ]_vars

\* the visibility mode of a preferences row, `everyone` when there is no row
ModeOf(targetPrefs) ==
    IF targetPrefs = EmptyMap THEN "everyone" ELSE targetPrefs.visibility_mode

\* C13: for a viewer with an identity-id the filter denies under invisible,
\* allows under everyone (also when the target has no preferences row), and
\* under followers, following and close-friends allows exactly when the id is
\* in the target's followers, following or close-friends list.
C13_FilterDecision ==
    (lastOp.op = "canUserSee" /\ lastOp.viewerId # NoId) =>
        LET mode == ModeOf(lastOp.targetPrefs)
            T == lastOp.targetUser
        IN lastOp.result <=>
              \/ mode = "everyone"
              \/ mode = "followers" /\ lastOp.viewerId \in T.followers
              \/ mode = "following" /\ lastOp.viewerId \in T.following
              \/ mode = "close-friends" /\ lastOp.viewerId \in T.close_friends

\* the filter allowed a follower, who is in neither of the other lists, under
\* followers mode
C13_FollowerAllowed ==
    /\ lastOp.op = "canUserSee"
    /\ lastOp.viewerId # NoId
    /\ ModeOf(lastOp.targetPrefs) = "followers"
    /\ lastOp.viewerId \in lastOp.targetUser.followers
    /\ lastOp.viewerId \notin lastOp.targetUser.following
    /\ lastOp.viewerId \notin lastOp.targetUser.close_friends
    /\ lastOp.result

\* C14: a viewer without an identity-id is admitted exactly when the target's
\* visibility mode is everyone.
C14_GuestSeesEveryoneMode ==
    (lastOp.op = "canUserSee" /\ lastOp.viewerId = NoId) =>
        (lastOp.result <=> ModeOf(lastOp.targetPrefs) = "everyone")

\* a message about a target is redacted by the share flags of the target's
\* preferences row: a project, language or activity it carries is blanked when
\* the flag is off (the activity of an `o` is its key act, of a `u` its key a)
Redacted(m, row) ==
    LET act == IF m.t = "o" THEN "act" ELSE "a"
    IN /\ (~Coalesce(row, "share_project", TRUE) /\ Has(m, "p")) => m.p = ""
       /\ (~Coalesce(row, "share_language", TRUE) /\ Has(m, "l")) => m.l = ""
       /\ (~Coalesce(row, "share_activity", TRUE) /\ Has(m, act)) => m[act] = "Hidden"

\* C15: every `u` or `o` about target T written to a socket is redacted by T's
\* share flags: project and language empty and activity "Hidden" when the flag
\* is off; a field the message lacks stays absent.
C15_SharedFieldsRedacted ==
    ( /\ lastOp.op = "deliver"
      /\ lastOp.message.t \in {"u", "o"}
      /\ AccountOf(lastOp.message.id) # NoId
      /\ lastOp.message.id \notin dbGuests )
    => \A w \in Conns : \A i \in DOMAIN out[w] :
          /\ Redacted(out[w][i], getPreferences(dbPrefs, AccountOf(lastOp.message.id)))
          /\ DOMAIN out[w][i] \subseteq DOMAIN lastOp.message

\* ------------------------------------------------------------------ channels
\* the error frame a handler answers with
ErrorFrame(error) == [t |-> "error", error |-> error]
FullChannel == ErrorFrame("Channel is full or you are already a member")

\* C16: after any sequence and interleaving of create, join and leave, joins of
\* one channel handled concurrently included, no channel has more than 50
\* members; a join made when the channel already has 50 members is answered
\* with the full-channel error and adds no membership
C16_ChannelCapacity ==
    /\ \A c \in DOMAIN dbMembers : countMembers(dbMembers, c) <= MAX_CHANNEL_MEMBERS
    /\ ( /\ lastOp.op = "joinChannel"
         /\ lastOp.channelId # NoChannel
         /\ lastOp.count >= MAX_CHANNEL_MEMBERS )
          => /\ out[lastOp.ws] = <<FullChannel>>
             /\ ~Has(joining, lastOp.ws)

\* the frames of the last step a socket was sent, as a set of their types
SentTypes(w) == {out[w][i].t : i \in DOMAIN out[w]}
\* the events of the last step published to the channel's topic, by type
PublishedTypes(channelId) ==
    {pub[i].message.t : i \in {j \in DOMAIN pub : pub[j].channel = Channel(channelId)}}

\* C17: a join with a valid invite code by a user who is already a member of
\* the channel is rejected with an error: membership is unchanged, the caller
\* is sent an error and neither jcOk nor a channel-sync, and no member-joined
\* event is published
C17_MemberJoinRejected ==
    [][ (lastOp'.op = "joinChannelInsert" /\ lastOp'.already) =>
          /\ dbMembers' = dbMembers
          /\ conn[lastOp'.ws] = "open" => (SentTypes(lastOp.ws))' = {"error"}
          /\ "cj" \notin (PublishedTypes(lastOp.channelId))' ]_vars

\* the usernames of the channel's membership rows
MemberNames(members, channelId) ==
    {getChannelMembers(members, channelId)[i].username :
        i \in DOMAIN getChannelMembers(members, channelId)}
\* the open sockets, other than ws, bound to a member of the channel
MemberSockets(channelId, ws) ==
    {w \in DOMAIN clients \ {ws} :
        /\ conn[w] = "open"
        /\ clients[w].githubId # NoId
        /\ isChannelMember(dbMembers, channelId, clients[w].githubId)}

\* C18: on a successful join the joiner is sent jcOk and then a cs whose roster
\* holds every current member of the channel, the joiner included, and a cj
\* carrying the new member is on its way to every connected member of the
\* channel: it is published to the channel's topic and each of their sockets
\* is subscribed to that topic
C18_JoinRepliesAndNotifies ==
    (lastOp.op = "joinChannelInsert" /\ lastOp.added /\ conn[lastOp.ws] = "open") =>
        LET c == lastOp.channelId
            sent == out[lastOp.ws]
        IN /\ Len(sent) = 2
           /\ sent[1].t = "jcOk" /\ sent[1].channelId = c
           /\ sent[2].t = "cs" /\ sent[2].channelId = c
           /\ {sent[2].members[i].id : i \in DOMAIN sent[2].members}
                 = MemberNames(dbMembers, c)
           /\ lastOp.username \in MemberNames(dbMembers, c)
           /\ Len(pub) = 1
           /\ pub[1].channel = Channel(c)
           /\ pub[1].message.t = "cj" /\ pub[1].message.member.id = lastOp.username
           /\ \A w \in MemberSockets(c, lastOp.ws) :
                 /\ SubCount(subscriptions, Channel(c), w) >= 1
                 /\ inbox # <<>> /\ inbox[Len(inbox)] = pub[1]

\* the socket is bound to an identity that has a membership row in the channel
SenderIsMember(ws, channelId) ==
    /\ Has(clients, ws)
    /\ clients[ws].githubId # NoId
    /\ isChannelMember(dbMembers, channelId, clients[ws].githubId)

\* C19: a chat event is published to channel:{id} only when the identity of the
\* sending connection is a member of the channel at the time of the request;
\* the event's sender id is the connection's bound username and its timestamp
\* is the server's, whatever id or ts the frame carries; a non-member is sent
\* an error and nothing is published
C19_ChatFromMembersOnly ==
    lastOp.op = "channelMessage" =>
        LET ws == lastOp.ws
            c == lastOp.message.channelId
        IN /\ pub # <<>> =>
                /\ SenderIsMember(ws, c)
                /\ Len(pub) = 1
                /\ pub[1].channel = Channel(c)
                /\ pub[1].message.t = "cm"
                /\ pub[1].message.id = clients[ws].username
                /\ pub[1].message.ts = ServerTs
           /\ ~SenderIsMember(ws, c) =>
                /\ pub = <<>>
                /\ SentTypes(ws) = {"error"}

\* the events of a channel's topic
ChannelEvents == {"cj", "cl", "cm"}

\* C20: after a successful login of a user who already belongs to channel C,
\* the new connection is subscribed to channel:C, and it is sent the
\* member-joined, member-left and chat events delivered on that topic
C20_LoginSubscribesToChannels ==
    /\ ( /\ lastOp.op = "login" /\ lastOp.ok
         /\ Has(clients, lastOp.ws) /\ clients[lastOp.ws].githubId # NoId ) =>
            \A c \in getUserChannels(dbMembers, clients[lastOp.ws].githubId) :
                SubCount(subscriptions, Channel(c), lastOp.ws) >= 1
    /\ ( lastOp.op = "deliver" /\ lastOp.message.t \in ChannelEvents ) =>
            \A w \in DOMAIN clients :
                (conn[w] = "open" /\ SenderIsMember(w, lastOp.message.channelId)) =>
                    lastOp.message \in Range(out[w])

\* the capital letters and digits without 0, O, I and 1
ConfusableFree ==
    ({"A", "B", "C", "D", "E", "F", "G", "H", "I", "J", "K", "L", "M", "N", "O", "P", "Q",
      "R", "S", "T", "U", "V", "W", "X", "Y", "Z"} \ {"O", "I"})
    \cup ({"0", "1", "2", "3", "4", "5", "6", "7", "8", "9"} \ {"0", "1"})

\* C21: every invite code of a channel is exactly 6 characters long, each of
\* the alphabet without 0, O, I and 1, and no two existing channels share an
\* invite code
C21_InviteCodeShape ==
    /\ \A c \in DOMAIN dbChannels :
          /\ Len(dbChannels[c].invite_code) = 6
          /\ Range(dbChannels[c].invite_code) \subseteq ConfusableFree
    /\ \A c, d \in DOMAIN dbChannels :
          dbChannels[c].invite_code = dbChannels[d].invite_code => c = d
    /\ ( lastOp.op = "createChannel" /\ SentTypes(lastOp.ws) = {"ccOk", "cs"} ) =>
          out[lastOp.ws][1].inviteCode
              = dbChannels[out[lastOp.ws][1].channelId].invite_code

\* a channel was created in this run and its code was sent to the creator
C21_Created ==
    /\ lastOp.op = "createChannel"
    /\ SentTypes(lastOp.ws) = {"ccOk", "cs"}
    /\ Cardinality(DOMAIN dbChannels) > Cardinality(DOMAIN PersistedChannels)

\* C22: channel creation accepts a name of 3 to 30 characters and rejects a
\* name of 2 or fewer or 31 or more characters with an error reply, and a
\* rejected creation persists no channel and no membership
C22_NameLengthValidated ==
    [][ ( /\ lastOp'.op = "createChannel"
          /\ Has(clients, lastOp'.ws) /\ clients[lastOp'.ws].githubId # NoId
          /\ ( Len(lastOp'.message.name) < 3 \/ Len(lastOp'.message.name) > 30 ) ) =>
            /\ (SentTypes(lastOp.ws))' = {"error"}
            /\ dbChannels' = dbChannels
            /\ dbMembers' = dbMembers ]_vars

\* ------------------------------------------------------------------- logins
\* some live connection is bound to the username
HeldByLiveConnection(table, username) ==
    \E w \in Conns : conn[w] = "open" /\ Has(table, w) /\ table[w].username = username
\* a login frame without an access token and without a resume token
IsGuestLogin(op) ==
    op.op = "login" /\ op.message.token = Undefined /\ op.message.resumeToken = NoToken

C24_UsernameOneIdentity ==
    \A v, w \in DOMAIN clients :
        ( conn[v] = "open" /\ conn[w] = "open" /\ clients[v].username = clients[w].username )
            => clients[v].githubId = clients[w].githubId

\* the entries of the sync frame a successful login sent to its socket
SyncEntries(op) ==
    LET frames == out[op.ws]
        syncs == {i \in DOMAIN frames : frames[i].t = "sync"}
    IN UNION {{frames[i].users[w] : w \in DOMAIN frames[i].users} : i \in syncs}

\* C26: the initial sync of a login lists only users who have a non-empty
\* Window Set, are in the viewer's friend set and pass the Privacy Filter for
\* the viewer; a user in invisible mode, or whose last window has closed,
\* never appears in it
C26_SyncListsVisibleFriendsOnly ==
    ( lastOp.op = "login" /\ lastOp.ok ) =>
        \A e \in SyncEntries(lastOp) :
            /\ Has(userSessions, e.id) /\ userSessions[e.id] # {}
            /\ RelatedTo(clients[lastOp.ws], e.id)
            /\ Admits(clients[lastOp.ws].githubId, AccountOf(e.id))
            /\ StoredMode(dbPrefs, AccountOf(e.id)) # "invisible"

\* the sockets of the table bound to the username, earliest first
WindowsOf(table, username) ==
    SortedSeq({w \in DOMAIN table : table[w].username = username})
\* the entries of a sync frame about the username
EntriesAbout(sync, username) == {w \in DOMAIN sync.users : sync.users[w].id = username}

\* C27: when a friend has several windows open the viewer's initial sync holds
\* exactly one entry for the friend, and it carries the state of the window
\* with the highest-priority activity under Debugging > Coding > Reading >
\* Idle > Hidden, the earliest window winning ties
C27_SyncAggregatesWindows ==
    lastOp.op = "sendInitialSync" =>
        \A u \in {lastOp.table[w].username : w \in DOMAIN lastOp.table \ {lastOp.viewer}} :
            /\ Cardinality(EntriesAbout(lastOp.result, u)) = 1
            /\ \A w \in EntriesAbout(lastOp.result, u) :
                  lastOp.result.users[w]
                      = CompactUser(getAggregatedStatus(lastOp.table,
                                                        WindowsOf(lastOp.table, u)))

\* the step was a login attempt that failed
LoginFailed(op) == op.op = "login" /\ ~op.ok
\* the frames of type t the last step sent to socket w
Replies(w, t) == {i \in DOMAIN out[w] : out[w][i].t = t}
\* socket w is in the Window Set of some username
InWindowSet(w) == Has(clients, w) \/ \E u \in DOMAIN userSessions : w \in userSessions[u]

\* C25: a login attempt that fails, for whatever reason, is answered with a
\* loginError and leaves the connection not admitted: it is in no Window Set
\* and holds no subscription afterwards, and the attempt issued no resume
\* token and published no `o`
C25_FailedLoginNotAdmitted ==
    [][ LoginFailed(lastOp') =>
          /\ (Replies(lastOp.ws, "loginError") # {})'
          /\ (~InWindowSet(lastOp.ws))'
          /\ (~Has(userSockets, lastOp.ws))'
          /\ nextToken' = nextToken /\ sessions' = sessions
          /\ pub' = <<>> ]_vars

\* C28: a sweep terminates a connection only if no frame and no pong arrived
\* from it since the previous sweep, and a connection that is open and sent a
\* frame or a pong since the previous sweep is sent a heartbeat and stays open
C28_SweepSparesHeardConnections ==
    [][ lastOp'.op = "sweep" =>
          /\ \A w \in Conns : (conn[w] = "open" /\ conn'[w] # "open") => w \notin heard
          /\ \A w \in heard : conn[w] = "open" =>
                 conn'[w] = "open" /\ out'[w] = <<[t |-> "hb"]>> ]_vars

\* a sweep terminated a silent connection and kept one that had sent a frame
C28_SweepTerminated ==
    /\ lastOp.op = "sweep"
    /\ lastOp.terminated # {}
    /\ \E w \in lastOp.heard : w \in lastOp.kept /\ conn[w] = "open"
    /\ \A w \in lastOp.terminated : conn[w] = "terminated"

\* C29: the frames of one connection are handled one at a time: when the
\* handling of a frame begins, no handler of an earlier frame of the same
\* connection is still in progress, so a statusUpdate that follows a login
\* frame is never handled while that login is pending
C29_FramesSerialised ==
    [][ lastOp'.op \in {"statusUpdate", "frame"} => ~Has(loggingIn, lastOp'.ws) ]_vars

\* the types handleMessage has a case for
KnownTypes == {"login", "statusUpdate", "prefsUpdate", "hb"}
\* the step handled text that is not JSON or a message of an unknown type
UnreadableFrame(op) ==
    op.op = "frame" /\ (~op.frame.json \/ Field(op.frame.message, "t") \notin KnownTypes)
\* the step handled a login that left username out
LoginWithoutUsername(op) == op.op = "login" /\ op.message.username = Undefined
\* the step answered its socket with an error and changed nothing else
ErrorReplyOnly ==
    /\ (Replies(lastOp.ws, "error") # {})'
    /\ conn' = conn /\ clients' = clients /\ userSessions' = userSessions
    /\ subscriptions' = subscriptions /\ userSockets' = userSockets
    /\ sessions' = sessions /\ statusCache' = statusCache
    /\ pub' = <<>> /\ inbox' = inbox

\* C30: a frame that is not JSON, has an unknown type or lacks a required
\* field (a login without username) is answered with an `error` and has no
\* other effect: the connection stays open and is not admitted, and no Window
\* Set, subscription or published state changes
C30_InvalidFrameErrorOnly ==
    [][ (UnreadableFrame(lastOp') \/ LoginWithoutUsername(lastOp'))
            => ErrorReplyOnly ]_vars

\* the preference columns and the message field that carries each
PrefColumns == {"visibility_mode", "share_project", "share_language", "share_activity"}
PrefField(column) ==
    CASE column = "visibility_mode" -> "visibilityMode"
      [] column = "share_project"   -> "shareProjectName"
      [] column = "share_language"  -> "shareLanguage"
      [] column = "share_activity"  -> "shareActivity"

\* C31: a prefsUpdate of a user with a stored preferences row changes exactly
\* the preferences it carries: a carried one takes the value of the message and
\* every other one keeps the value that was stored
C31_PartialPrefsKeepOthers ==
    [][ ( /\ lastOp'.op = "prefsUpdate"
          /\ Has(clients, lastOp'.ws)
          /\ clients[lastOp'.ws].githubId # NoId
          /\ Has(dbPrefs, clients[lastOp'.ws].githubId) )
        => LET id == clients[lastOp'.ws].githubId
               prefs == lastOp'.message.prefs
           IN \A column \in PrefColumns :
                 dbPrefs'[id][column] =
                    IF Has(prefs, PrefField(column)) THEN prefs[PrefField(column)]
                    ELSE dbPrefs[id][column] ]_vars

\* the custom status a client record holds; the empty object when it holds none
CustomStatusOf(client) ==
    IF Has(client, "customStatus") THEN client.customStatus ELSE EmptyMap
\* the last step published exactly the delta of username that clears the custom status
PublishedCleared(username) ==
    pub = <<[channel |-> Presence(username),
             message |-> [t |-> "u", id |-> username, cs |-> Null]]>>
\* a clear that follows a set on the same logged-in connection
ClearAfterSet ==
    /\ lastOp.op = "setStatus" /\ lastOp'.op = "clearStatus"
    /\ lastOp'.ws = lastOp.ws /\ Has(clients, lastOp.ws)

\* C32: a set followed by a clear on a connection returns its custom status to
\* what it was before the set, and the clear publishes a `u` delta whose cs is null
C32_ClearRestoresPreSet ==
    [][ ClearAfterSet =>
          /\ CustomStatusOf(clients'[lastOp.ws]) = CustomStatusOf(lastOp.before)
          /\ PublishedCleared(clients[lastOp.ws].username)' ]_vars

\* C32, amended: a set followed by a clear on a connection leaves it with no
\* custom status, which is what it had before the set whenever none was set
\* then, and the clear publishes a `u` delta whose cs is null
C32_ClearLeavesNoStatus ==
    [][ ClearAfterSet =>
          /\ CustomStatusOf(clients'[lastOp.ws]) = EmptyMap
          /\ CustomStatusOf(lastOp.before) = EmptyMap
               => clients'[lastOp.ws] = lastOp.before
          /\ PublishedCleared(clients[lastOp.ws].username)' ]_vars

\* a connection that held a custom status has cleared it
C32_Cleared ==
    /\ lastOp.op = "clearStatus"
    /\ CustomStatusOf(lastOp.before) # EmptyMap
    /\ Has(clients, lastOp.ws)
    /\ CustomStatusOf(clients[lastOp.ws]) = EmptyMap
    /\ PublishedCleared(clients[lastOp.ws].username)

\* the steps in which the editor reports activity
ActivityEvents == {"textDocument", "activeTextEditor", "startDebug", "terminateDebug", "focus"}

\* C33: when a window is Away, the next activity event of any kind turns its
\* status back to Online and has an update sent: the debounce timer is set, so
\* the state goes out when it runs
C33_ActivityEndsAway ==
    [][ (tracker.currentState.status = "Away" /\ lastOp'.op \in ActivityEvents)
          => /\ tracker'.currentState.status = "Online"
             /\ tracker'.updateTimer # NoTimer ]_vars

\* the topics in whose subscriber set socket w is
TopicsOf(w) == {channel \in DOMAIN subscriptions : SubCount(subscriptions, channel, w) > 0}

\* C34: once the disconnect path of a connection has completed, the connection
\* is in no Window Set and in no topic's subscriber set, the clients table and
\* the socket table hold no entry for it, and nothing is written to it
C34_DisconnectFreesEverything ==
    \A w \in Conns : conn[w] = "closed" =>
        /\ ~InWindowSet(w)
        /\ TopicsOf(w) = {}
        /\ ~Has(userSockets, w)
        /\ out[w] = <<>>

\* no call of PubSubService awaits Redis
Quiescent == calls = NoCalls
\* the local connections in the subscriber set of a topic
LocalSubscribers(channel) == Subscribers(subscriptions, channel)
\* the topics of the model
Topics == {Presence(u) : u \in Usernames}

\* C35, first half: whenever no subscribe or unsubscribe call is in progress,
\* the process is physically subscribed to exactly the topics that have a
\* local connection in their subscriber set
C35_PhysicalIffSubscribed ==
    Quiescent => \A channel \in Topics :
                    channel \in redisSubs <=> LocalSubscribers(channel) # {}

\* C35: the first half, and a physical subscribe is issued only for a topic
\* without local subscribers, a physical unsubscribe only when the one
\* remaining local subscriber of the topic leaves
C35_RefCountedSubscription ==
    [][ /\ C35_PhysicalIffSubscribed'
        /\ \A channel \in Topics :
             /\ (channel \in redisSubs' /\ channel \notin redisSubs)
                   => LocalSubscribers(channel) = {}
             /\ (channel \in redisSubs /\ channel \notin redisSubs')
                   => ( Cardinality(LocalSubscribers(channel)) = 1
                        /\ LocalSubscribers(channel)' = {} ) ]_vars

\* socket w has completed a subscribe to the topic and has not been
\* unsubscribed since: the topic is in its channel list and no unsubscribeAll
\* of w has begun
HoldsSubscription(w, channel) ==
    /\ Has(userSockets, w)
    /\ channel \in Range(userSockets[w])
    /\ ~Has(calls.unsubscribeAll, w)

\* C38: under every interleaving of subscribe and unsubscribeAll calls, a
\* socket whose subscribe to a topic has completed is in the topic's subscriber
\* set and the process is physically subscribed to the topic, until the socket
\* itself is unsubscribed; a message received on the topic is written to every
\* such socket that is open
C38_CompletedSubscribeHolds ==
    /\ \A w \in Conns : \A channel \in Topics :
          HoldsSubscription(w, channel) =>
              SubCount(subscriptions, channel, w) > 0 /\ channel \in redisSubs
    /\ lastOp.op = "deliver" =>
          \A w \in Conns :
              (conn[w] = "open" /\ HoldsSubscription(w, lastOp.channel))
                  => out[w] # <<>>

\* C39: after any sequence of logins and disconnects, a second login on a bound
\* connection included, a connection is in the Window Set of username u exactly
\* when the clients table binds it to u, and no Window Set entry is empty
C39_WindowSetMatchesClients ==
    /\ \A u \in DOMAIN userSessions : \A w \in Conns :
          w \in WindowSet(userSessions, u) <=> (Has(clients, w) /\ clients[w].username = u)
    /\ \A w \in DOMAIN clients : w \in WindowSet(userSessions, clients[w].username)
    /\ \A u \in DOMAIN userSessions : userSessions[u] # {}

\* C40: a connection is never more than once in a topic's subscriber set, also
\* after repeated successful logins on the same connection, and a message
\* received on a topic is written to each connection at most once
C40_DeliveredAtMostOnce ==
    /\ \A channel \in DOMAIN subscriptions : \A w \in Conns :
          SubCount(subscriptions, channel, w) <= 1
    /\ lastOp.op = "deliver" => \A w \in Conns : Len(out[w]) <= 1

\* the awaits of a login resolved after the close handler of its socket ran
LateLogin == lastOp.op = "login" /\ conn[lastOp.ws] = "closed"

\* C37: when a transport closes while its login is in flight, then once the
\* close handler and the login have both finished the closed connection is in
\* no Window Set, not in the clients table and in no topic's subscriber set,
\* and no `o` was published for a username that nothing will report offline
C37_LateLoginLeavesNothing ==
    LateLogin =>
        /\ ~InWindowSet(lastOp.ws)
        /\ ~Has(clients, lastOp.ws)
        /\ TopicsOf(lastOp.ws) = {}
        /\ \A i \in DOMAIN pub : pub[i].message.t # "o"

\* the usernames whose Window Set holds the connection
WindowSetsOf(w) == {u \in DOMAIN userSessions : w \in userSessions[u]}

\* the usernames an `x` was published for in the step
PublishedOffline == {pub[i].message.id : i \in {j \in DOMAIN pub : pub[j].message.t = "x"}}

\* the close handler ran for a connection the sweep had terminated
TerminatedDisconnects(w) ==
    conn[w] = "terminated" /\ lastOp'.op = "disconnect" /\ lastOp'.ws = w

\* C36: a connection no frame and no pong arrived from since a sweep is
\* terminated by the next sweep, that is no later than the second sweep after
\* its last frame; the close handler of a terminated connection takes it out
\* of its Window Set and publishes an `x` for every username it was the last
\* window of
C36_SilentConnectionSwept ==
    [][ /\ lastOp'.op = "sweep" =>
            \A w \in swept : conn[w] = "open" => conn'[w] = "terminated"
        /\ \A w \in Conns : TerminatedDisconnects(w) =>
            /\ WindowSetsOf(w)' = {}
            /\ \A u \in WindowSetsOf(w) : userSessions[u] = {w} => u \in PublishedOffline'
      ]_vars

====
